---- MODULE Spec2Model ----
(***************************************************************************)
(* Model of the Reddit fetcher of server.js (the Postgres/SMTP variant):   *)
(* the polite throttle, the OAuth token cache, the per-key result cache,   *)
(* the in-flight map, the fallback chain of fetchPosts, the probes of      *)
(* resolveSubreddit and the /api/trending handler that runs both.          *)
(*                                                                         *)
(* One step of the model is one run-to-completion turn of the Node event   *)
(* loop: a handler runs from one resumption (a timer, a response, an       *)
(* incoming request) to its next suspension on a timer or on the network,  *)
(* together with every promise continuation that becomes ready meanwhile.  *)
(*                                                                         *)
(* Times are milliseconds, with the program's own constants.  The clock    *)
(* moves by explicit steps: to the instant a pending timer is due, to the  *)
(* last millisecond before an expiry, or by a fixed amount; a timer may    *)
(* fire late, and a response may arrive at any time while its request is   *)
(* pending.  Each specification below fixes the callers, the inputs, the   *)
(* upstream answers and the clock steps of one group of properties.        *)
(***************************************************************************)
EXTENDS Integers, Sequences, FiniteSets, TLC

\* ---------------------------------------------------------------- bounds
NumCallers == 2
MaxChainTicks == 7
MaxDedupTicks == 1
MaxGateTicks  == 3
MaxCacheTicks == 2
MaxTrendTicks == 8
MaxArrivalTicks == 1
MaxFeedTicks == 5
MaxWindowTicks == 2
MaxResolveTicks == 3
MaxLiveTicks == 8
MaxRows == 2
MaxCronTicks == 4
MaxTokens == 2
MaxStatusTicks == 4

MaxAgainTicks == 4

StartTime  == 1200

\* ---------------------------------------------------- program constants
MIN_DELAY_MS     == 1200
FETCH_TIMEOUT_MS == 10000
TOP_N            == 5
DEFAULT_RETRY    == 30
DEFAULT_EXPIRES  == 3600

Callers    == 1..NumCallers
Canonicals == {"Cooking", "cooking"}
Timeframes == {"day", "week"}

VARIABLES
  now,             \* Date.now()
  ticks,           \* number of clock advances so far (bounded by MaxTicks)
  creds,           \* REDDIT_CLIENT_ID && REDDIT_CLIENT_SECRET
  lastRedditCall,  \* the throttle's slot time
  CACHE,           \* key -> { data, exp } (has = FALSE: no entry)
  PENDING,         \* key -> the caller whose run is the in-flight promise (0: none)
  redditToken,     \* cached bearer token ("" : none)
  redditTokenExp,
  tokenLifeEnd,    \* history: when the lifetime upstream declared for the token ends (0: none)
  pc,              \* where each fetchPosts caller is suspended
  req,             \* the arguments of the caller's current fetchPosts call
  stage,           \* the stage the caller's run is in
  timer,           \* sleep: wake-up time; call/token: time the request was sent
  result,          \* what fetchPosts returned to the caller
  attempted,       \* history: the stages the caller's run has entered, in order
  events,          \* history: what upstream did to each call of the run
  gateStarts,      \* history: start times of the two latest calls that passed the gate
  gateQueue,       \* history: the callers asleep in redditThrottle, in order of arrival
  params,          \* the subreddit and timeframe of the caller's /api/trending request
  info,            \* what resolveSubreddit returned to the caller's handler
  h1,              \* the www HTML probe's response, kept while the old one is pending
  probed,          \* history: the probes the caller's resolution has issued, in order
  heard,           \* history: the latest answer a probe of the caller has received
  reply,           \* the HTTP response the caller's handler has sent
  subscriptions,   \* the subscriptions table: row id -> row (used = FALSE: no row)
  job,             \* the digest job: the rows it selected and the one it is at
  issued,          \* the number of confirmation tokens generated so far
  confirming,      \* the rows (id and token) found by confirm handlers that have yet to update
  outbox           \* history: the latest digest mailed, when each row was last mailed one,
                   \* and the rows whose turn in the latest run ended in the catch block
                   \* or mailed a digest

resolverVars == <<params, info, h1, probed, heard, reply>>
cronVars == <<subscriptions, job, issued, confirming, outbox>>
serverVars == <<creds, lastRedditCall, CACHE, PENDING, redditToken, redditTokenExp, tokenLifeEnd, pc, req,
                stage, timer, result, attempted, events, gateStarts, gateQueue, resolverVars>>

vars == <<now, ticks, creds, lastRedditCall, CACHE, PENDING, redditToken,
          redditTokenExp, pc, req, stage, timer, result, attempted, events,
          gateStarts, gateQueue, params, info, h1, probed, heard, reply,
          subscriptions, job, issued, confirming, outbox, tokenLifeEnd>>

\* ------------------------------------------------------------ small helpers
Min(a, b) == IF a < b THEN a ELSE b
Max(a, b) == IF a > b THEN a ELSE b
Last(s)   == s[Len(s)]

\* String.prototype.toLowerCase on the names the model uses
toLowerCase(s) ==
  CASE s = "Cooking" -> "cooking"
    [] OTHER         -> s

\* ------------------------------------------------------- cache (126-134)
cacheKey(canonical, tf) == <<toLowerCase(canonical), tf>>
Keys == { cacheKey(c, tf) : c \in Canonicals, tf \in Timeframes }

\* faulty variant: the five-minute case for "day" is lost
ttlForAlwaysHour(tf) == 60 * 60 * 1000

ttlFor(tf) == IF tf = "day" THEN 5 * 60 * 1000 ELSE 60 * 60 * 1000

NoEntry == [has |-> FALSE, data |-> <<>>, exp |-> 0]

\* faulty variant: the cache is never read
getCachedMiss(cache, k, t) == [some |-> FALSE, val |-> <<>>]

\* faulty variant: an entry is dropped one millisecond early
getCachedEarly(cache, k, t) ==
  IF cache[k].has /\ t + 1 < cache[k].exp
    THEN [some |-> TRUE, val |-> cache[k].data]
    ELSE [some |-> FALSE, val |-> <<>>]

\* e && Date.now() < e.exp ? e.data : null
getCached(cache, k, t) ==
  IF cache[k].has /\ t < cache[k].exp
    THEN [some |-> TRUE, val |-> cache[k].data]
    ELSE [some |-> FALSE, val |-> <<>>]

setCached(cache, k, data, tf, t) ==
  [cache EXCEPT ![k] = [has |-> TRUE, data |-> data, exp |-> t + ttlFor(tf)]]

\* faulty variant: the in-flight map is never consulted
PendingHasNever(pending, k) == FALSE

\* PENDING.has(key)
PendingHas(pending, k) == pending[k] # 0

\* ---------------------------------------------------- throttle (108-115)
\* faulty variant: the gate never waits
ThrottleWaitNone(last, t) == 0

\* const wait = lastRedditCall + MIN_DELAY_MS - Date.now()
ThrottleWait(last, t) == last + MIN_DELAY_MS - t

\* --------------------------------------------- retry-after parsing (141)
Digits == <<"0", "1", "2", "3", "4", "5", "6", "7", "8", "9">>
IsDigit(ch) == \E i \in 1..10 : Digits[i] = ch
DigitVal(ch) == (CHOOSE i \in 1..10 : Digits[i] = ch) - 1

RECURSIVE LeadingDigits(_, _)
LeadingDigits(s, acc) ==
  IF s = <<>> \/ ~IsDigit(Head(s)) THEN acc
  ELSE LeadingDigits(Tail(s), acc * 10 + DigitVal(Head(s)))

RECURSIVE SkipSpaces(_)
SkipSpaces(s) == IF s # <<>> /\ Head(s) = " " THEN SkipSpaces(Tail(s)) ELSE s

\* parseInt(s, 10): leading white space, an optional sign, then digits
parseInt(s) ==
  LET t    == SkipSpaces(s)
      neg  == t # <<>> /\ Head(t) = "-"
      body == IF t # <<>> /\ Head(t) \in {"-", "+"} THEN Tail(t) ELSE t
  IN IF body = <<>> \/ ~IsDigit(Head(body))
       THEN [nan |-> TRUE, val |-> 0]
       ELSE [nan |-> FALSE,
             val |-> IF neg THEN 0 - LeadingDigits(body, 0) ELSE LeadingDigits(body, 0)]

NoHeader == [present |-> FALSE, text |-> <<>>]
Header(txt) == [present |-> TRUE, text |-> txt]

\* parseInt(res.headers.get('retry-after') || '0', 10) || null
retryAfterOf(h) ==
  LET p == parseInt(IF h.present /\ h.text # <<>> THEN h.text ELSE <<"0">>)
  IN IF p.nan \/ p.val = 0 THEN [some |-> FALSE, val |-> 0]
                           ELSE [some |-> TRUE, val |-> p.val]

\* retryAfter || 30
retryAfterOrDefault(r) == IF r.some /\ r.val # 0 THEN r.val ELSE DEFAULT_RETRY

\* ------------------------------------------------------ results (263-383)
NoUrl == <<"", "">>
Ok(posts, used) ==
  [ok |-> TRUE, posts |-> posts, hasPosts |-> TRUE, used |-> used,
   rateLimited |-> FALSE, timeout |-> FALSE, retryAfter |-> 0]
RateLimitedOut(ra) ==
  [ok |-> FALSE, posts |-> <<>>, hasPosts |-> FALSE, used |-> NoUrl,
   rateLimited |-> TRUE, timeout |-> FALSE, retryAfter |-> ra]
TimeoutOut ==
  [ok |-> FALSE, posts |-> <<>>, hasPosts |-> FALSE, used |-> NoUrl,
   rateLimited |-> FALSE, timeout |-> TRUE, retryAfter |-> 0]
UnavailableOut ==
  [ok |-> FALSE, posts |-> <<>>, hasPosts |-> FALSE, used |-> NoUrl,
   rateLimited |-> FALSE, timeout |-> FALSE, retryAfter |-> 0]
NoResult == UnavailableOut


\* ------------------------------------------------- the fallback chain order
StageOrder == <<"oauth", "api", "www", "old", "rss", "html">>
Stages == { StageOrder[i] : i \in 1..Len(StageOrder) }
StageIndex(s) == CHOOSE i \in 1..Len(StageOrder) : StageOrder[i] = s

\* faulty variant: the OAuth block is entered without credentials too
ConfiguredStagesAlways(cr) == StageOrder

\* the stages a run goes through: the OAuth block only with credentials (271)
ConfiguredStages(cr) == IF cr THEN StageOrder ELSE Tail(StageOrder)
FirstStage(cr) == Head(ConfiguredStages(cr))

\* the statement after a stage's block: the next endpoint of the for loop,
\* then the RSS block, then the HTML block, then `return { ok: false }`
HasNext(s) == StageIndex(s) < Len(StageOrder)
NextStage(s) == StageOrder[StageIndex(s) + 1]

\* an absent property of a payload, an unset field of a result
Undefined == "undefined"

\* ----------------------------------------------------- upstream responses
Children == { <<>>, <<1>>, <<1, 2, 3, 4, 5, 6>> }
RetryHeaders ==
  { NoHeader, Header(<<"0">>), Header(<<"4", "5">>), Header(<<"W", "e", "d">>) }

\* a response as the fetchers see it: json = the body parsed as JSON and
\* carries data.children = items; tag = the text holds <entry or <item;
\* for text bodies items = the <entry> blocks (RSS) or the thing rows (HTML)
Resp(st, h, js, tg, it) ==
  [status |-> st, retry |-> h, json |-> js, tag |-> tg, items |-> it]

JsonAnswers ==
  { Resp(429, h, FALSE, FALSE, <<>>) : h \in RetryHeaders }
    \cup { Resp(200, NoHeader, TRUE, FALSE, ch) : ch \in Children }
    \cup { Resp(200, NoHeader, FALSE, FALSE, <<>>), Resp(403, NoHeader, TRUE, FALSE, <<1>>) }

TextAnswers ==
  { Resp(429, h, FALSE, FALSE, <<>>) : h \in RetryHeaders }
    \cup { Resp(200, NoHeader, FALSE, TRUE, ch) : ch \in Children }
    \cup { Resp(200, NoHeader, FALSE, FALSE, <<>>), Resp(403, NoHeader, FALSE, TRUE, <<1>>) }

IsJsonStage(s) == s \in {"oauth", "api", "www", "old"}
AnswersFor(s) == IF IsJsonStage(s) THEN JsonAnswers ELSE TextAnswers

\* ------------------------------------------------------------------ posts
\* a field the stage cannot fill
Null == "null"

\* s.includes(w), /w/.test(s)
Includes(s, w) == \E i \in 1..(Len(s) - Len(w) + 1) : SubSeq(s, i, i + Len(w) - 1) = w

\* a || b of two strings, '' and null being falsy
OrElse(a, b) == IF a # "" /\ a # Null THEN a ELSE b

\* the items upstream lists, by number; item Blank carries none of the fields
\* the stages read
Blank == 7
Names == <<"one", "two", "three", "four", "five", "six", "">>
Numbers == <<"1", "2", "3", "4", "5", "6", "7">>
Path(i) == "/r/Cooking/comments/" \o Numbers[i] \o "/"

Post(title, score, author, url, permalink, created, num_comments, source) ==
  [title |-> title, score |-> score, author |-> author, url |-> url,
   permalink |-> permalink, created |-> created, num_comments |-> num_comments,
   source |-> source]

\* p.data of child i of a listing
Child(i) ==
  IF i = Blank
    THEN [title |-> Undefined, score |-> Undefined, author |-> Undefined, url |-> Undefined,
          permalink |-> Undefined, created_utc |-> Undefined, num_comments |-> Undefined]
    ELSE [title |-> Names[i], score |-> Numbers[i], author |-> "cook",
          url |-> "https://example.com/" \o Numbers[i], permalink |-> Path(i),
          created_utc |-> Numbers[i], num_comments |-> Numbers[i]]

\* the post of child i (277-286, 307-316)
JsonPost(i, source) ==
  Post(Child(i).title, Child(i).score, Child(i).author, Child(i).url,
       "https://reddit.com" \o Child(i).permalink, Child(i).created_utc,
       Child(i).num_comments, source)

\* what the three patterns of the RSS block capture in <entry> i ('' when a
\* pattern does not match); odd entries carry a tag id, even ones a URL id
Entry(i) ==
  IF i = Blank THEN [title |-> "", link |-> "", id |-> ""]
  ELSE [title |-> Names[i],
        link  |-> "https://www.reddit.com" \o Path(i),
        id    |-> IF i % 2 = 0 THEN "https://www.reddit.com" \o Path(i) ELSE "t3_" \o Numbers[i]]

\* faulty variant: an <entry> is read like a JSON child
RssPostFromChild(i) == JsonPost(i, "rss")

\* the post of <entry> i (331-346)
RssPost(i) ==
  LET e == Entry(i)
      permalink == IF Includes(e.id, "/comments/") THEN e.id
                   ELSE IF Includes(e.link, "/comments/") THEN e.link ELSE Null
  IN Post(e.title, Null, Null, OrElse(permalink, OrElse(e.link, Null)),
          OrElse(permalink, OrElse(e.link, Null)), Null, Null, "rss")

\* what the pattern of parseTopFromOldRedditHTML captures in thing row i: the
\* permalink, the title stripped of tags, the digits of score and comments
Thing(i) ==
  IF i = Blank THEN [permalink |-> Path(i), title |-> "", score |-> "", comments |-> ""]
  ELSE [permalink |-> Path(i), title |-> Names[i], score |-> Numbers[i], comments |-> Numbers[i]]

\* the item pushed for thing row i (245-256)
HtmlPost(i) ==
  Post(Thing(i).title, IF Thing(i).score # "" THEN Thing(i).score ELSE Null, Undefined,
       "https://old.reddit.com" \o Thing(i).permalink, "https://old.reddit.com" \o Thing(i).permalink,
       Undefined, IF Thing(i).comments # "" THEN Thing(i).comments ELSE Null, "html")

PostOf(i, source) ==
  CASE source \in {"oauth", "json"} -> JsonPost(i, source)
    [] source = "rss"               -> RssPost(i)
    [] OTHER                        -> HtmlPost(i)

\* faulty variant: the list is not cut
TopPostsUncut(items, source) == [i \in 1..Len(items) |-> PostOf(items[i], source)]

\* the first five items a stage turns into posts: children.slice(0, 5) (277,
\* 307), entries .slice(0, 5) (330), items.length < max (244)
TopPosts(items, source) ==
  [i \in 1..Min(TOP_N, Len(items)) |-> PostOf(items[i], source)]

SourceTag(s) ==
  CASE s = "oauth" -> "oauth"
    [] s \in {"api", "www", "old"} -> "json"
    [] s = "rss" -> "rss"
    [] OTHER -> "html"

\* the stage's request URL, as far as the result's `used` tells them apart
UrlOf(s, canonical) == <<s, canonical>>

Return(out) == [kind |-> "return", out |-> out]
Fallthrough == [kind |-> "next", out |-> UnavailableOut]

\* faulty variant: a feed without a parsable entry falls through to the next stage
StageDecisionFeedNeedsEntries(s, canonical, ans) ==
  IF ans.status = 429
    THEN Return(RateLimitedOut(retryAfterOrDefault(retryAfterOf(ans.retry))))
  ELSE IF ans.status = 200 /\ (IsJsonStage(s) => ans.json) /\ Len(TopPosts(ans.items, SourceTag(s))) > 0
         THEN Return(Ok(TopPosts(ans.items, SourceTag(s)), UrlOf(s, canonical)))
         ELSE Fallthrough

\* what a stage's block does with the response of its request
\*   OAuth 275-289, JSON endpoints 305-319, RSS 329-351, HTML 360-367
StageDecision(s, canonical, ans) ==
  IF ans.status = 429
    THEN Return(RateLimitedOut(retryAfterOrDefault(retryAfterOf(ans.retry))))
  ELSE IF IsJsonStage(s)
    THEN IF ans.status = 200 /\ ans.json /\ Len(ans.items) > 0
           THEN Return(Ok(TopPosts(ans.items, SourceTag(s)), UrlOf(s, canonical)))
           ELSE Fallthrough
  ELSE IF s = "rss"
    THEN IF ans.status = 200 /\ (ans.tag \/ Len(ans.items) > 0)
           THEN Return(Ok(TopPosts(ans.items, SourceTag(s)), UrlOf(s, canonical)))
           ELSE Fallthrough
  ELSE IF ans.status = 200 /\ Len(TopPosts(ans.items, SourceTag(s))) > 0
         THEN Return(Ok(TopPosts(ans.items, SourceTag(s)), UrlOf(s, canonical)))
         ELSE Fallthrough

\* error messages, as sequences of words
TimeoutMsg == <<"timeout">>
NetworkMsg == <<"request", "failed">>
TokenErrorMsg(status) == <<"OAuth", "token", "error", ToString(status)>>
ErrorMessages == { TimeoutMsg, NetworkMsg }

\* faulty variant: the catch clause no longer recognises the timeout error
includesTimeoutNever(msg) == FALSE

\* String(e.message).includes('timeout')
includesTimeout(msg) == \E i \in DOMAIN msg : msg[i] = "timeout"

\* faulty variant: a caught error ends the run with { ok: false }
CatchDecisionGiveUp(msg) == IF includesTimeout(msg) THEN Return(TimeoutOut) ELSE Return(UnavailableOut)

\* the catch clause of every stage (291, 321, 353, 369)
CatchDecision(msg) == IF includesTimeout(msg) THEN Return(TimeoutOut) ELSE Fallthrough

\* ------------------------------------------------- token exchange (158-176)
NoToken == ""
TokenResp(st, tok, exp, h) ==
  [status |-> st, access_token |-> tok, expires_in |-> exp, retry |-> h]
TokenAnswers ==
  { TokenResp(200, "tok", 0, NoHeader), TokenResp(200, "tok", 30, NoHeader),
    TokenResp(200, NoToken, 0, NoHeader), TokenResp(401, NoToken, 0, NoHeader) }
    \cup { TokenResp(429, NoToken, 0, h) : h \in RetryHeaders }

\* faulty variant: a cached token is used whatever its expiry
TokenValidIgnoresExpiry(tok, exp, t) == tok # NoToken

\* redditToken && Date.now() < redditTokenExp
TokenValid(tok, exp, t) == tok # NoToken /\ t < exp

\* res.ok && j.access_token
TokenAccepted(tans) ==
  tans.status >= 200 /\ tans.status <= 299 /\ tans.access_token # NoToken

\* Date.now() + Math.max(60, (j.expires_in || 3600) - 60) * 1000
TokenExpiry(tans, t) ==
  t + Max(60, (IF tans.expires_in # 0 THEN tans.expires_in ELSE DEFAULT_EXPIRES) - 60) * 1000

\* ------------------------------------------------------ resolver (190-236)
Subreddits == {"cooking", "r/Cooking", " R/cooking "}

\* input.trim().replace(/^r\//i, '') on the inputs the model uses
raw(input) ==
  CASE input = "r/Cooking"   -> "Cooking"
    [] input = " R/cooking " -> "cooking"
    [] OTHER                 -> input

\* req.query.timeframe || 'week'
Queries == {"", "day", "week"}
timeframeOf(q) == IF q = "" THEN "week" ELSE q

ProbeOrder == <<"api.about", "www.about", "www.html", "old.html">>
Probes == { ProbeOrder[i] : i \in 1..Len(ProbeOrder) }
IsAboutProbe(p) == p \in {"api.about", "www.about"}

\* what fetchJson returns for an 'about' request: json = the body parsed as
\* JSON, data = it has a truthy data property, whose display_name and
\* subreddit_type follow (Undefined / "" when absent)
About(st, js, dt, name, type) ==
  [status |-> st, json |-> js, data |-> dt, display_name |-> name, subreddit_type |-> type]

NoAnswer == About(0, FALSE, FALSE, Undefined, "")

AboutAnswers ==
  { About(200, TRUE, TRUE, "Cooking", ty) : ty \in {"public", "restricted", ""} }
    \cup { About(200, TRUE, TRUE, Undefined, "public"), About(200, TRUE, FALSE, Undefined, ""),
           About(200, FALSE, FALSE, Undefined, ""), About(403, TRUE, FALSE, Undefined, ""),
           About(404, TRUE, FALSE, Undefined, ""), About(429, FALSE, FALSE, Undefined, ""),
           About(500, FALSE, FALSE, Undefined, "") }

\* a page as the two parsers see it: the name each of the four patterns of
\* parseCanonicalFromHtml captures first ("" when it does not match) and the
\* gating markers the text holds
Text(og, link, desc, title, markers) ==
  [og |-> og, link |-> link, desc |-> desc, title |-> title, markers |-> markers]
EmptyText == Text("", "", "", "", {})
Markers == {"modal", "private", "invited"}

\* what fetchText returns for a front page
Page(st, text) == [status |-> st, text |-> text]
NoPage == Page(0, EmptyText)

PageAnswers ==
  { Page(200, Text("Cooking", "", "", "cooking", {})), Page(200, Text("", "", "", "Cooking", {"private"})),
    Page(200, Text("", "", "", "", {"modal"})), Page(200, EmptyText),
    Page(403, Text("", "", "", "Cooking", {"invited"})),
    Page(404, EmptyText), Page(429, EmptyText) }

\* a + '\n' + b: each pattern matches at its first occurrence
Concat(a, b) ==
  [og      |-> IF a.og # "" THEN a.og ELSE b.og,
   link    |-> IF a.link # "" THEN a.link ELSE b.link,
   desc    |-> IF a.desc # "" THEN a.desc ELSE b.desc,
   title   |-> IF a.title # "" THEN a.title ELSE b.title,
   markers |-> a.markers \cup b.markers]

\* (h1.status === 200 ? h1.text : '') + '\n' + (h2.status === 200 ? h2.text : '')
HtmlOf(p1, p2) ==
  Concat(IF p1.status = 200 THEN p1.text ELSE EmptyText,
         IF p2.status = 200 THEN p2.text ELSE EmptyText)

\* faulty variant: the page title is looked at first
parseCanonicalTitleFirst(html, fallback) ==
  IF html.title # "" THEN html.title
  ELSE IF html.og # "" THEN html.og
  ELSE IF html.link # "" THEN html.link
  ELSE IF html.desc # "" THEN html.desc
  ELSE fallback

parseCanonicalFromHtml(html, fallback) ==
  IF html.og # "" THEN html.og
  ELSE IF html.link # "" THEN html.link
  ELSE IF html.desc # "" THEN html.desc
  ELSE IF html.title # "" THEN html.title
  ELSE fallback

htmlLooksProtected(html) ==
  "modal" \in html.markers \/ "private" \in html.markers \/ "invited" \in html.markers

\* the objects resolveSubreddit returns
Found(canonical, type, httpStatus, source) ==
  [exists |-> TRUE, canonical |-> canonical, type |-> type, reason |-> Undefined,
   httpStatus |-> httpStatus, source |-> source]
NotFound ==
  [exists |-> FALSE, canonical |-> Undefined, type |-> Undefined, reason |-> "not_found",
   httpStatus |-> 404, source |-> Undefined]
NoInfo ==
  [exists |-> FALSE, canonical |-> Undefined, type |-> Undefined, reason |-> Undefined,
   httpStatus |-> 0, source |-> Undefined]

\* a.status === 200 && a.json?.data (213, 220)
AboutSucceeds(a) == a.status = 200 /\ a.json /\ a.data

\* faulty variant: an absent subreddit_type is passed on as it is
FromAboutNoDefault(a, source) == Found(a.display_name, a.subreddit_type, 200, source)

\* the object built from the payload (214-215, 221-222)
FromAbout(a, source) ==
  Found(a.display_name, IF a.subreddit_type # "" THEN a.subreddit_type ELSE "public", 200, source)

\* faulty variant: one 404 page is enough for a missing subreddit
FromHtmlOne404(p1, p2, rawName) ==
  IF p1.status = 404 \/ p2.status = 404 THEN NotFound
  ELSE Found(parseCanonicalFromHtml(HtmlOf(p1, p2), rawName),
             IF htmlLooksProtected(HtmlOf(p1, p2)) THEN "maybe_gated" ELSE "unknown",
             IF htmlLooksProtected(HtmlOf(p1, p2)) THEN 403 ELSE 200, "html")

\* faulty variant: two 404 pages are read like any other pair of pages
FromHtmlAlwaysFound(p1, p2, rawName) ==
  Found(parseCanonicalFromHtml(HtmlOf(p1, p2), rawName),
        IF htmlLooksProtected(HtmlOf(p1, p2)) THEN "maybe_gated" ELSE "unknown",
        IF htmlLooksProtected(HtmlOf(p1, p2)) THEN 403 ELSE 200, "html")

\* faulty variant: a gated page counts as a missing subreddit
FromHtmlGatedMissing(p1, p2, rawName) ==
  IF (p1.status = 404 /\ p2.status = 404) \/ htmlLooksProtected(HtmlOf(p1, p2))
    THEN NotFound
    ELSE FromHtmlAlwaysFound(p1, p2, rawName)

\* the object built from the two pages (229-235)
FromHtml(p1, p2, rawName) ==
  IF p1.status = 404 /\ p2.status = 404 THEN NotFound
  ELSE LET html  == HtmlOf(p1, p2)
           gated == htmlLooksProtected(html)
       IN Found(parseCanonicalFromHtml(html, rawName),
                IF gated THEN "maybe_gated" ELSE "unknown",
                IF gated THEN 403 ELSE 200, "html")

\* faulty variant: the www 'about' probe follows a 403 too
AfterAboutAlwaysWww(p, a) == IF p = "api.about" THEN "www.about" ELSE "www.html"

\* the probe after an 'about' probe that did not succeed (218)
AfterAbout(p, a) ==
  IF p = "api.about" /\ a.status # 403 THEN "www.about" ELSE "www.html"

\* ------------------------------------------- trending endpoint (394-435)
NoParams == [subreddit |-> "", timeframe |-> ""]
Params(sub, q) == [subreddit |-> sub, timeframe |-> q]

HttpReply(st, code, ra, posts) ==
  [status |-> st, code |-> code, retryAfter |-> ra, posts |-> posts]
NoReply == HttpReply(0, "", 0, <<>>)

\* faulty variant: a timeout is answered like an exhausted chain
ReplyForNoTimeout(fetched) ==
  IF ~fetched.ok
    THEN IF fetched.rateLimited
           THEN HttpReply(429, "RATE_LIMIT",
                          IF fetched.retryAfter # 0 THEN fetched.retryAfter ELSE DEFAULT_RETRY, <<>>)
         ELSE HttpReply(503, "UNAVAILABLE", 0, <<>>)
    ELSE HttpReply(200, "", 0, fetched.posts)

\* the response for what fetchPosts returned (405-430)
ReplyFor(fetched) ==
  IF ~fetched.ok
    THEN IF fetched.rateLimited
           THEN HttpReply(429, "RATE_LIMIT",
                          IF fetched.retryAfter # 0 THEN fetched.retryAfter ELSE DEFAULT_RETRY, <<>>)
         ELSE IF fetched.timeout THEN HttpReply(504, "TIMEOUT", 20, <<>>)
         ELSE HttpReply(503, "UNAVAILABLE", 0, <<>>)
    ELSE HttpReply(200, "", 0, fetched.posts)

NotFoundReply == HttpReply(404, "", 0, <<>>)
ErrorReply == HttpReply(500, "", 0, <<>>)

\* --------------------------------------------------- subscriptions table
\* CREATE TABLE subscriptions (part_000 50-61, cron.js 159-170); a NULL
\* last_sent is NoDate, a NULL confirmation_token is NoTokenId
RowIds == 1..MaxRows
NoDate == 0
NoTokenId == 0
Row(email, subreddit, timeframe, confirmed, token, last_sent) ==
  [used |-> TRUE, email |-> email, subreddit |-> subreddit, timeframe |-> timeframe,
   confirmed |-> confirmed, confirmation_token |-> token, last_sent |-> last_sent]
NoRow == [used |-> FALSE, email |-> "", subreddit |-> "", timeframe |-> "",
          confirmed |-> FALSE, confirmation_token |-> NoTokenId, last_sent |-> NoDate]

\* the ids of the rows of table t, SERIAL ids being handed out in order
UsedIds(t) == { id \in RowIds : t[id].used }

\* the rows that hold (email, subreddit, timeframe): the unique index
\* uniq_sub (part_000 62-64) keeps them to one at most
Holders(t, email, subreddit, timeframe) ==
  { id \in UsedIds(t) : /\ t[id].email = email /\ t[id].subreddit = subreddit
                        /\ t[id].timeframe = timeframe }

\* ------------------------------------------------------ digest job (cron.js)
JobOff == [pc |-> "off", rows |-> <<>>, i |-> 0]

\* new Date(t).getUTCDay(): 0 is Sunday, and 1 January 1970 was a Thursday
getUTCDay(t) == (4 + t \div (1000 * 60 * 60 * 24)) % 7

\* isDue(sub) at time t (cron.js 135-152); days >= 6.5 is, in milliseconds,
\* now - last >= 13 half days
isDue(sub, t) ==
  LET last   == sub.last_sent
      monday == getUTCDay(t) = 1
  IN IF sub.timeframe = "day"
       THEN IF last = NoDate THEN TRUE ELSE t - last >= 20 * 60 * 60 * 1000
     ELSE IF sub.timeframe = "week"
       THEN IF last = NoDate THEN monday
            ELSE monday /\ t - last >= 13 * (1000 * 60 * 60 * 12)
     ELSE IF last = NoDate THEN TRUE ELSE t - last >= 20 * 60 * 60 * 1000

\* what the job's resolveSubreddit returns (cron.js 75-96) for the answers
\* a1, a2 of the 'about' probes and p1, p2 of the front-page probes
CronFound(canonical, type) == [exists |-> TRUE, canonical |-> canonical, type |-> type]
CronNotFound == [exists |-> FALSE, canonical |-> Undefined, type |-> Undefined]

cronResolveSubreddit(a1, a2, p1, p2, rawName) ==
  IF AboutSucceeds(a1)
    THEN CronFound(a1.display_name, IF a1.subreddit_type # "" THEN a1.subreddit_type ELSE "public")
  ELSE IF a1.status # 403 /\ AboutSucceeds(a2)
    THEN CronFound(a2.display_name, IF a2.subreddit_type # "" THEN a2.subreddit_type ELSE "public")
  ELSE IF p1.status = 404 /\ p2.status = 404 THEN CronNotFound
  ELSE CronFound(parseCanonicalFromHtml(HtmlOf(p1, p2), rawName),
                 IF htmlLooksProtected(HtmlOf(p1, p2)) THEN "maybe_gated" ELSE "unknown")

\* the posts of the job: title and url only
CronPost(title, url) == [title |-> title, url |-> url]

\* json.data.children.map(...) (cron.js 117-120)
cronJsonPosts(items) ==
  [i \in 1..Len(items) |->
     CronPost(Child(items[i]).title, "https://reddit.com" \o Child(items[i]).permalink)]

\* parseRedditAtom (cron.js 97-107)
parseRedditAtom(items) ==
  [i \in 1..Len(items) |->
     LET e == Entry(items[i])
         permalink == IF Includes(e.id, "/comments/") THEN e.id
                      ELSE IF Includes(e.link, "/comments/") THEN e.link ELSE Null
     IN [title |-> e.title, url |-> OrElse(e.link, OrElse(permalink, Null)),
         permalink |-> permalink]]

\* a JSON endpoint's answer ends the loop (cron.js 116)
CronListed(ans) == ans.status = 200 /\ ans.json /\ Len(ans.items) > 0

\* the job's fetchPosts (cron.js 108-132) for the answers of the three JSON
\* endpoints and of the feed, as far as they are asked
cronFetchPosts(answers) ==
  IF \E j \in 1..3 : CronListed(answers[j])
    THEN cronJsonPosts(answers[CHOOSE j \in 1..3 :
                                 CronListed(answers[j]) /\ \A h \in 1..(j - 1) : ~CronListed(answers[h])].items)
  ELSE IF answers[4].status = 200 /\ (answers[4].tag \/ Len(answers[4].items) > 0)
    THEN LET atom == parseRedditAtom(answers[4].items)
         IN [i \in 1..Len(atom) |-> CronPost(atom[i].title, OrElse(atom[i].permalink, atom[i].url))]
  ELSE <<>>

\* history: the statuses of the requests fetchPosts made
Asked(answers) ==
  IF \E j \in 1..3 : CronListed(answers[j])
    THEN [h \in 1..(CHOOSE j \in 1..3 :
                      CronListed(answers[j]) /\ \A g \in 1..(j - 1) : ~CronListed(answers[g])) |->
            answers[h].status]
    ELSE [h \in 1..4 |-> answers[h].status]

\* posts.slice(0, 5) (cron.js 194)
Top(posts) == SubSeq(posts, 1, Min(TOP_N, Len(posts)))

\* a digest handed to sendEmail (cron.js 195-210); empty = the text says
\* 'No posts found.'
Digest(id, to, canonical, timeframe, top, asked, t) ==
  [row |-> id, to |-> to, canonical |-> canonical, timeframe |-> timeframe, top |-> top,
   empty |-> Len(top) = 0, asked |-> asked, at |-> t]

NoDigest == Digest(0, "", "", "", <<>>, <<>>, NoDate)

\* -------------------------------------------------------- history records
Event(s, call, signal, h) == [stage |-> s, call |-> call, signal |-> signal, retry |-> h]

SignalOf(s, canonical, ans) ==
  IF ans.status = 429 THEN "rate"
  ELSE IF StageDecision(s, canonical, ans).kind = "return" THEN "posts"
  ELSE "none"

TokenSignalOf(tans) ==
  IF tans.status = 429 THEN "rate" ELSE IF TokenAccepted(tans) THEN "ok" ELSE "none"

PassGate(gs, t) == IF Len(gs) < 2 THEN Append(gs, t) ELSE <<gs[2], t>>

KeyOf(c) == cacheKey(req[c].canonical, req[c].tf)


\* ------------------------------------------------------------------- Init
Init ==
  /\ now = StartTime
  /\ ticks = 0
  /\ creds \in BOOLEAN
  /\ lastRedditCall = 0
  /\ CACHE = [k \in Keys |-> NoEntry]
  /\ PENDING = [k \in Keys |-> 0]
  /\ redditToken = NoToken
  /\ redditTokenExp = 0
  /\ tokenLifeEnd = 0
  /\ pc = [c \in Callers |-> "idle"]
  /\ req = [c \in Callers |-> [canonical |-> "cooking", tf |-> "week"]]
  /\ stage = [c \in Callers |-> "api"]
  /\ timer = [c \in Callers |-> 0]
  /\ result = [c \in Callers |-> NoResult]
  /\ attempted = [c \in Callers |-> <<>>]
  /\ events = [c \in Callers |-> <<>>]
  /\ gateStarts = <<>>
  /\ gateQueue = <<>>
  /\ params = [c \in Callers |-> NoParams]
  /\ info = [c \in Callers |-> NoInfo]
  /\ h1 = [c \in Callers |-> NoPage]
  /\ probed = [c \in Callers |-> <<>>]
  /\ heard = [c \in Callers |-> NoAnswer]
  /\ reply = [c \in Callers |-> NoReply]
  /\ subscriptions = [id \in RowIds |-> NoRow]
  /\ job = JobOff
  /\ issued = 0
  /\ confirming = {}
  /\ outbox = [latest |-> NoDigest, at |-> [id \in RowIds |-> NoDate],
               caught |-> {}, mailed |-> {}]

\* ------------------------------------------------- pieces of the handlers
\* await redditThrottle(); then the request is sent (137-139, 148-150, 179-180)
redditThrottle(c) ==
  LET wait == ThrottleWait(lastRedditCall, now) IN
  IF wait > 0
    THEN /\ pc' = [pc EXCEPT ![c] = "sleep"]
         /\ timer' = [timer EXCEPT ![c] = now + wait]
         /\ gateQueue' = Append(gateQueue, c)
         /\ UNCHANGED <<lastRedditCall, gateStarts>>
    ELSE /\ pc' = [pc EXCEPT ![c] = "call"]
         /\ timer' = [timer EXCEPT ![c] = now]
         /\ lastRedditCall' = now
         /\ gateStarts' = PassGate(gateStarts, now)
         /\ UNCHANGED gateQueue

\* the run enters the block of stage s; the OAuth block first asks for the
\* token (178), which without a valid cached one posts the exchange (162)
EnterStage(c, s) ==
  /\ stage' = [stage EXCEPT ![c] = s]
  /\ attempted' = [attempted EXCEPT ![c] = Append(@, s)]
  /\ IF s = "oauth" /\ ~TokenValid(redditToken, redditTokenExp, now)
       THEN /\ pc' = [pc EXCEPT ![c] = "token"]
            /\ timer' = [timer EXCEPT ![c] = now]
            /\ UNCHANGED <<lastRedditCall, gateStarts, gateQueue>>
       ELSE redditThrottle(c)

\* faulty variant: whatever the run returned is stored
CacheAfterAlways(cache, k, out, tf, t) == setCached(cache, k, out.posts, tf, t)

\* the cache after the run returned out: the run's own setCached on success
\* (287, 317, 349, 364) and the caller's second one (378)
CacheAfter(cache, k, out, tf, t) ==
  LET afterRun == IF out.ok THEN setCached(cache, k, out.posts, tf, t) ELSE cache
  IN IF out.ok /\ out.hasPosts THEN setCached(afterRun, k, out.posts, tf, t) ELSE afterRun

\* faulty variant: the entry is deleted on success only
PendingAfterSuccessOnly(pending, k, out) ==
  IF out.ok THEN [pending EXCEPT ![k] = 0] ELSE pending

\* finally { PENDING.delete(key) } (380-382)
PendingAfter(pending, k, out) == [pending EXCEPT ![k] = 0]

\* who resumes with the run's result: its owner (377) and every caller that
\* awaited the promise found in PENDING (267)
Waiters(c) == { d \in Callers : pc[d] = "waiting" /\ PENDING[KeyOf(d)] = c }

\* the run of caller c returns out
Settle(c, out) ==
  /\ pc' = [d \in Callers |-> IF d = c \/ d \in Waiters(c) THEN "done" ELSE pc[d]]
  /\ result' = [d \in Callers |-> IF d = c \/ d \in Waiters(c) THEN out ELSE result[d]]
  /\ CACHE' = CacheAfter(CACHE, KeyOf(c), out, req[c].tf, now)
  /\ PENDING' = PendingAfter(PENDING, KeyOf(c), out)
  /\ UNCHANGED <<stage, timer, attempted, lastRedditCall, gateStarts, gateQueue>>

\* the run goes on after a stage's block decided d
Continue(c, d) ==
  IF d.kind = "return" THEN Settle(c, d.out)
  ELSE IF HasNext(stage[c])
    THEN /\ EnterStage(c, NextStage(stage[c]))
         /\ UNCHANGED <<CACHE, PENDING, result>>
  ELSE Settle(c, UnavailableOut)

\* ---------------------------------------------------------------- actions
\* fetchPosts(canonical, timeframe) is called (263-375)
fetchPosts(c, canonical, tf) ==
  LET k == cacheKey(canonical, tf)
      cached == getCached(CACHE, k, now)
  IN
  /\ req' = [req EXCEPT ![c] = [canonical |-> canonical, tf |-> tf]]
  /\ events' = [events EXCEPT ![c] = <<>>]
  /\ UNCHANGED <<now, ticks, creds, CACHE, redditToken, redditTokenExp>>
  /\ IF cached.some
       THEN /\ pc' = [pc EXCEPT ![c] = "done"]
            /\ result' = [result EXCEPT ![c] = Ok(cached.val, <<"cache", "">>)]
            /\ attempted' = [attempted EXCEPT ![c] = <<>>]
            /\ UNCHANGED <<PENDING, stage, timer, lastRedditCall, gateStarts, gateQueue>>
     ELSE IF PendingHas(PENDING, k)
       THEN /\ pc' = [pc EXCEPT ![c] = "waiting"]
            /\ attempted' = [attempted EXCEPT ![c] = <<>>]
            /\ UNCHANGED <<PENDING, result, stage, timer, lastRedditCall, gateStarts, gateQueue>>
     ELSE /\ PENDING' = [PENDING EXCEPT ![k] = c]
          /\ EnterStage(c, FirstStage(creds))
          /\ UNCHANGED result

\* a handler whose resolution is over calls fetchPosts (403)
CallFetchPosts(c, canonical, tf) ==
  /\ pc[c] = "idle"
  /\ fetchPosts(c, canonical, tf)
  /\ UNCHANGED <<resolverVars, cronVars, tokenLifeEnd>>

\* the sleep of redditThrottle is over: lastRedditCall = Date.now() (113-114)
Wake(c) ==
  /\ pc[c] = "sleep"
  /\ now >= timer[c]
  /\ pc' = [pc EXCEPT ![c] = "call"]
  /\ timer' = [timer EXCEPT ![c] = now]
  /\ lastRedditCall' = now
  /\ gateStarts' = PassGate(gateStarts, now)
  /\ gateQueue' = SelectSeq(gateQueue, LAMBDA d : d # c)
  /\ UNCHANGED <<now, ticks, creds, CACHE, PENDING, redditToken, redditTokenExp,
                 req, stage, result, attempted, events>>
  /\ UNCHANGED <<resolverVars, cronVars, tokenLifeEnd>>

\* upstream answers the stage's request
Respond(c, ans) ==
  /\ pc[c] = "call"
  /\ stage[c] \in Stages
  /\ events' = [events EXCEPT ![c] =
       Append(@, Event(stage[c], "request", SignalOf(stage[c], req[c].canonical, ans), ans.retry))]
  /\ Continue(c, StageDecision(stage[c], req[c].canonical, ans))
  /\ UNCHANGED <<now, ticks, creds, redditToken, redditTokenExp, req>>
  /\ UNCHANGED <<resolverVars, cronVars, tokenLifeEnd>>

\* upstream answers the token exchange (171-175); a refusal is thrown into
\* the OAuth block's catch (290-293)
TokenRespond(c, tans) ==
  /\ pc[c] = "token"
  /\ events' = [events EXCEPT ![c] =
       Append(@, Event(stage[c], "token", TokenSignalOf(tans), tans.retry))]
  /\ UNCHANGED <<now, ticks, creds, req>>
  /\ UNCHANGED <<resolverVars, cronVars>>
  /\ tokenLifeEnd' = IF ~TokenAccepted(tans) THEN tokenLifeEnd
                      ELSE IF tans.expires_in > 0 THEN now + tans.expires_in * 1000
                      ELSE 0
  /\ IF TokenAccepted(tans)
       THEN /\ redditToken' = tans.access_token
            /\ redditTokenExp' = TokenExpiry(tans, now)
            /\ redditThrottle(c)
            /\ UNCHANGED <<CACHE, PENDING, result, stage, attempted>>
       ELSE /\ UNCHANGED <<redditToken, redditTokenExp>>
            /\ Continue(c, CatchDecision(TokenErrorMsg(tans.status)))

\* the pending fetch rejects: the timer of fetchWithTimeout wins the race
\* (118-123) or the network fails; the stage's catch decides
FetchRejects(c, msg) ==
  /\ pc[c] \in {"call", "token"}
  /\ stage[c] \in Stages
  /\ msg = TimeoutMsg => now >= timer[c] + FETCH_TIMEOUT_MS
  /\ events' = [events EXCEPT ![c] =
       Append(@, Event(stage[c], IF pc[c] = "token" THEN "token" ELSE "request",
                       IF msg = TimeoutMsg THEN "timeout" ELSE "none", NoHeader))]
  /\ Continue(c, CatchDecision(msg))
  /\ UNCHANGED <<now, ticks, creds, redditToken, redditTokenExp, req>>
  /\ UNCHANGED <<resolverVars, cronVars, tokenLifeEnd>>

\* the caller's handler has used the result; the slot serves a later request
Release(c) ==
  /\ pc[c] = "done"
  /\ pc' = [pc EXCEPT ![c] = "idle"]
  /\ result' = [result EXCEPT ![c] = NoResult]
  /\ attempted' = [attempted EXCEPT ![c] = <<>>]
  /\ events' = [events EXCEPT ![c] = <<>>]
  /\ UNCHANGED <<now, ticks, creds, lastRedditCall, CACHE, PENDING, redditToken,
                 redditTokenExp, req, stage, timer, gateStarts, gateQueue>>
  /\ UNCHANGED <<resolverVars, cronVars, tokenLifeEnd>>

\* ------------------------------------------- resolver and endpoint steps
\* fetchJson / fetchText of probe p: through the throttle, then the request
EnterProbe(c, p) ==
  /\ stage' = [stage EXCEPT ![c] = p]
  /\ probed' = [probed EXCEPT ![c] = Append(@, p)]
  /\ redditThrottle(c)

\* faulty variant: the handler looks into the cache before it resolves the name
trendingCacheFirst(c, sub, q) ==
  LET cached == getCached(CACHE, cacheKey(raw(sub), timeframeOf(q)), now) IN
  /\ UNCHANGED <<cronVars, tokenLifeEnd>>
  /\ pc[c] = "idle"
  /\ params' = [params EXCEPT ![c] = Params(sub, q)]
  /\ info' = [info EXCEPT ![c] = NoInfo]
  /\ h1' = [h1 EXCEPT ![c] = NoPage]
  /\ heard' = [heard EXCEPT ![c] = NoAnswer]
  /\ attempted' = [attempted EXCEPT ![c] = <<>>]
  /\ events' = [events EXCEPT ![c] = <<>>]
  /\ UNCHANGED <<now, ticks, creds, CACHE, PENDING, redditToken, redditTokenExp, req>>
  /\ IF cached.some
       THEN /\ reply' = [reply EXCEPT ![c] = HttpReply(200, "", 0, cached.val)]
            /\ result' = [result EXCEPT ![c] = Ok(cached.val, <<"cache", "">>)]
            /\ probed' = [probed EXCEPT ![c] = <<>>]
            /\ UNCHANGED <<pc, stage, timer, lastRedditCall, gateStarts, gateQueue>>
       ELSE /\ reply' = [reply EXCEPT ![c] = NoReply]
            /\ result' = [result EXCEPT ![c] = NoResult]
            /\ stage' = [stage EXCEPT ![c] = Head(ProbeOrder)]
            /\ probed' = [probed EXCEPT ![c] = <<Head(ProbeOrder)>>]
            /\ redditThrottle(c)

\* GET /api/trending/:subreddit arrives: resolveSubreddit starts (394-399,
\* 208-212)
trending(c, sub, q) ==
  /\ UNCHANGED <<cronVars, tokenLifeEnd>>
  /\ pc[c] = "idle"
  /\ params' = [params EXCEPT ![c] = Params(sub, q)]
  /\ info' = [info EXCEPT ![c] = NoInfo]
  /\ h1' = [h1 EXCEPT ![c] = NoPage]
  /\ heard' = [heard EXCEPT ![c] = NoAnswer]
  /\ reply' = [reply EXCEPT ![c] = NoReply]
  /\ result' = [result EXCEPT ![c] = NoResult]
  /\ attempted' = [attempted EXCEPT ![c] = <<>>]
  /\ events' = [events EXCEPT ![c] = <<>>]
  /\ stage' = [stage EXCEPT ![c] = Head(ProbeOrder)]
  /\ probed' = [probed EXCEPT ![c] = <<Head(ProbeOrder)>>]
  /\ redditThrottle(c)
  /\ UNCHANGED <<now, ticks, creds, CACHE, PENDING, redditToken, redditTokenExp, req>>

\* resolveSubreddit returned inf to the handler (400-403); without a
\* canonical name cacheKey throws inside fetchPosts and the handler's catch
\* answers (128, 431-434)
Resolved(c, inf) ==
  /\ info' = [info EXCEPT ![c] = inf]
  /\ h1' = [h1 EXCEPT ![c] = NoPage]
  /\ UNCHANGED <<params, probed>>
  /\ IF ~inf.exists \/ inf.canonical = Undefined
       THEN /\ reply' = [reply EXCEPT ![c] = IF ~inf.exists THEN NotFoundReply ELSE ErrorReply]
            /\ pc' = [pc EXCEPT ![c] = "idle"]
            /\ UNCHANGED <<now, ticks, creds, lastRedditCall, CACHE, PENDING, redditToken,
                           redditTokenExp, req, stage, timer, result, attempted, events,
                           gateStarts, gateQueue>>
       ELSE /\ fetchPosts(c, inf.canonical, timeframeOf(params[c].timeframe))
            /\ UNCHANGED reply

\* resolveSubreddit goes on to probe p
NextProbe(c, p) ==
  /\ EnterProbe(c, p)
  /\ UNCHANGED <<now, ticks, creds, CACHE, PENDING, redditToken, redditTokenExp, req,
                 result, attempted, events, params, info, reply>>

\* upstream answers an 'about' probe (212-224)
AboutRespond(c, a) ==
  /\ UNCHANGED <<cronVars, tokenLifeEnd>>
  /\ pc[c] = "call"
  /\ IsAboutProbe(stage[c])
  /\ heard' = [heard EXCEPT ![c] = a]
  /\ IF AboutSucceeds(a)
       THEN Resolved(c, FromAbout(a, stage[c]))
       ELSE NextProbe(c, AfterAbout(stage[c], a)) /\ UNCHANGED h1

\* upstream answers a front-page probe (227-235)
PageRespond(c, pg) ==
  /\ UNCHANGED <<cronVars, tokenLifeEnd>>
  /\ pc[c] = "call"
  /\ stage[c] \in {"www.html", "old.html"}
  /\ heard' = [heard EXCEPT ![c] = pg]
  /\ IF stage[c] = "www.html"
       THEN /\ h1' = [h1 EXCEPT ![c] = pg]
            /\ NextProbe(c, "old.html")
       ELSE Resolved(c, FromHtml(h1[c], pg, raw(params[c].subreddit)))

\* faulty variant: a probe's timeout is answered like a timeout of a stage
ProbeRejectsAsStage(c, msg) ==
  /\ UNCHANGED <<cronVars, tokenLifeEnd>>
  /\ pc[c] = "call"
  /\ stage[c] \in Probes
  /\ msg = TimeoutMsg => now >= timer[c] + FETCH_TIMEOUT_MS
  /\ reply' = [reply EXCEPT ![c] = IF includesTimeout(msg) THEN ReplyFor(TimeoutOut) ELSE ErrorReply]
  /\ pc' = [pc EXCEPT ![c] = "idle"]
  /\ UNCHANGED <<now, ticks, creds, lastRedditCall, CACHE, PENDING, redditToken,
                 redditTokenExp, req, stage, timer, result, attempted, events,
                 gateStarts, gateQueue, params, info, probed>>
  /\ h1' = [h1 EXCEPT ![c] = NoPage]
  /\ heard' = [heard EXCEPT ![c] = NoAnswer]

\* a probe's fetch rejects: resolveSubreddit rejects and the handler's catch
\* answers (431-434)
ProbeRejects(c, msg) ==
  /\ UNCHANGED <<cronVars, tokenLifeEnd>>
  /\ pc[c] = "call"
  /\ stage[c] \in Probes
  /\ msg = TimeoutMsg => now >= timer[c] + FETCH_TIMEOUT_MS
  /\ reply' = [reply EXCEPT ![c] = ErrorReply]
  /\ pc' = [pc EXCEPT ![c] = "idle"]
  /\ UNCHANGED <<now, ticks, creds, lastRedditCall, CACHE, PENDING, redditToken,
                 redditTokenExp, req, stage, timer, result, attempted, events,
                 gateStarts, gateQueue, params, info, probed>>
  /\ h1' = [h1 EXCEPT ![c] = NoPage]
  /\ heard' = [heard EXCEPT ![c] = NoAnswer]

\* fetchPosts returned to the handler, which answers (405-430)
TrendingReply(c) ==
  /\ UNCHANGED <<cronVars, tokenLifeEnd>>
  /\ pc[c] = "done"
  /\ params[c] # NoParams
  /\ reply' = [reply EXCEPT ![c] = ReplyFor(result[c])]
  /\ pc' = [pc EXCEPT ![c] = "idle"]
  /\ UNCHANGED <<now, ticks, creds, lastRedditCall, CACHE, PENDING, redditToken,
                 redditTokenExp, req, stage, timer, result, attempted, events,
                 gateStarts, gateQueue, params, info, h1, probed, heard>>

\* ------------------------------------------- subscribe / confirm handlers
\* POST /api/subscribe (part_000 438-463): a fresh token, the upsert on
\* (email, subreddit, timeframe), then the confirmation mail
subscribe(email, subreddit, timeframe) ==
  LET tf      == IF timeframe = "" THEN "week" ELSE timeframe
      holders == Holders(subscriptions, email, subreddit, tf)
      token   == issued + 1
      fresh   == Cardinality(UsedIds(subscriptions)) + 1
  IN /\ issued < MaxTokens
     /\ holders # {} \/ fresh \in RowIds
     /\ issued' = token
     /\ subscriptions' =
          IF holders # {}
            THEN [id \in RowIds |->
                    IF id \in holders
                      THEN [subscriptions[id] EXCEPT !.confirmed = FALSE,
                                                     !.confirmation_token = token]
                      ELSE subscriptions[id]]
            ELSE [subscriptions EXCEPT ![fresh] = Row(email, subreddit, tf, FALSE, token, NoDate)]
     /\ UNCHANGED <<now, ticks, serverVars, job, confirming, outbox>>

\* GET /api/confirm/:token (part_000 465-470): the SELECT by token found a row
confirm(token) ==
  LET found == { id \in UsedIds(subscriptions) : subscriptions[id].confirmation_token = token }
  IN /\ token # NoTokenId
     /\ found # {}
     /\ confirming' = confirming \cup
          { [id |-> CHOOSE id \in found : \A other \in found : id <= other, token |-> token] }
     /\ UNCHANGED <<now, ticks, serverVars, subscriptions, job, issued, outbox>>

\* GET /api/confirm/:token (part_000 472-478): the UPDATE by id of the row found
confirmUpdate(sub) ==
  /\ sub \in confirming
  /\ confirming' = confirming \ {sub}
  /\ subscriptions' = [subscriptions EXCEPT ![sub.id].confirmed = TRUE,
                                             ![sub.id].confirmation_token = NoTokenId]
  /\ UNCHANGED <<now, ticks, serverVars, job, issued, outbox>>

\* ------------------------------------------------------- digest job steps
\* SELECT ... WHERE confirmed = TRUE (cron.js 173-182), rows in id order
Selected(t) ==
  LET ids == SelectSeq([i \in 1..MaxRows |-> i], LAMBDA i : t[i].used /\ t[i].confirmed)
  IN [j \in 1..Len(ids) |->
        [id |-> ids[j], email |-> t[ids[j]].email, subreddit |-> t[ids[j]].subreddit,
         timeframe |-> t[ids[j]].timeframe, last_sent |-> t[ids[j]].last_sent]]

\* the job starts: without confirmed rows it exits at once (cron.js 179-182)
CronStart ==
  /\ job.pc = "off"
  /\ job' = IF Len(Selected(subscriptions)) = 0 THEN JobOff
            ELSE [pc |-> "loop", rows |-> Selected(subscriptions), i |-> 1]
  /\ outbox' = [outbox EXCEPT !.caught = {}, !.mailed = {}]
  /\ UNCHANGED <<now, ticks, serverVars, subscriptions, issued, confirming>>

\* UPDATE subscriptions SET last_sent = NOW(), subreddit = $2 WHERE id = $1
\* (cron.js 211) is refused when subreddit would be NULL or when another row
\* holds (email, canonical, timeframe)
UpdateRefused(t, id, canonical) ==
  \/ canonical = Undefined
  \/ Holders(t, t[id].email, canonical, t[id].timeframe) \ {id} # {}

\* faulty variant: the catch block is around the loop, so a failure ends the run
CronRowStopsOnFailure(probes, answers, rejects) ==
  LET sub   == job.rows[job.i]
      inf   == cronResolveSubreddit(probes[1], probes[2], probes[3], probes[4], raw(sub.subreddit))
      top   == Top(cronFetchPosts(answers))
      sent  == /\ isDue(sub, now) /\ rejects \notin {"resolve", "fetch", "mail"} /\ inf.exists
      saved == sent /\ rejects # "update" /\ ~UpdateRefused(subscriptions, sub.id, inf.canonical)
      threw == /\ isDue(sub, now)
               /\ \/ rejects = "resolve"
                  \/ inf.exists /\ rejects \in {"fetch", "mail"}
                  \/ sent /\ ~saved
      caught == IF threw THEN outbox.caught \cup {sub.id} ELSE outbox.caught
  IN /\ job.pc = "loop"
     /\ job' = IF threw \/ job.i = Len(job.rows) THEN JobOff ELSE [job EXCEPT !.i = @ + 1]
     /\ outbox' = IF sent
                    THEN [latest |-> Digest(sub.id, sub.email, inf.canonical,
                                            IF sub.timeframe = "day" THEN "day" ELSE "week",
                                            top, Asked(answers), now),
                          at     |-> [outbox.at EXCEPT ![sub.id] = now],
                          caught |-> caught,
                          mailed |-> outbox.mailed \cup {sub.id}]
                    ELSE [outbox EXCEPT !.caught = caught]
     /\ subscriptions' =
          IF saved
            THEN [subscriptions EXCEPT ![sub.id].last_sent = now,
                                       ![sub.id].subreddit = inf.canonical]
            ELSE subscriptions
     /\ UNCHANGED <<now, ticks, serverVars, issued, confirming>>

\* one turn of `for (const sub of rows)` (cron.js 184-216): probes holds the
\* answers to the four probes of resolveSubreddit, answers those to the four
\* requests of fetchPosts, rejects names the await that rejects, if any
CronRow(probes, answers, rejects) ==
  LET sub   == job.rows[job.i]
      inf   == cronResolveSubreddit(probes[1], probes[2], probes[3], probes[4], raw(sub.subreddit))
      posts == cronFetchPosts(answers)
      top   == Top(posts)
      sent  == /\ isDue(sub, now) /\ rejects \notin {"resolve", "fetch", "mail"} /\ inf.exists
      saved == sent /\ rejects # "update" /\ ~UpdateRefused(subscriptions, sub.id, inf.canonical)
      threw == /\ isDue(sub, now)
               /\ \/ rejects = "resolve"
                  \/ inf.exists /\ rejects \in {"fetch", "mail"}
                  \/ sent /\ ~saved
      caught == IF threw THEN outbox.caught \cup {sub.id} ELSE outbox.caught
  IN /\ job.pc = "loop"
     /\ job' = IF job.i = Len(job.rows) THEN JobOff ELSE [job EXCEPT !.i = @ + 1]
     /\ outbox' = IF sent
                    THEN [latest |-> Digest(sub.id, sub.email, inf.canonical,
                                            IF sub.timeframe = "day" THEN "day" ELSE "week",
                                            top, Asked(answers), now),
                          at     |-> [outbox.at EXCEPT ![sub.id] = now],
                          caught |-> caught,
                          mailed |-> outbox.mailed \cup {sub.id}]
                    ELSE [outbox EXCEPT !.caught = caught]
     /\ subscriptions' =
          IF saved
            THEN [subscriptions EXCEPT ![sub.id].last_sent = now,
                                       ![sub.id].subreddit = inf.canonical]
            ELSE subscriptions
     /\ UNCHANGED <<now, ticks, serverVars, issued, confirming>>

\* time passes between two runs of the job
CronTick(d) ==
  /\ job.pc = "off"
  /\ ticks < MaxCronTicks
  /\ now' = now + d
  /\ ticks' = ticks + 1
  /\ UNCHANGED <<serverVars, cronVars>>

\* ------------------------------------------------------------------ clock
Expiries ==
  { CACHE[k].exp : k \in { j \in Keys : CACHE[j].has } }
    \cup (IF redditToken # NoToken THEN {redditTokenExp} ELSE {})

Advance(t, maxTicks) ==
  /\ ticks < maxTicks
  /\ t > now
  /\ now' = t
  /\ ticks' = ticks + 1
  /\ UNCHANGED <<creds, lastRedditCall, CACHE, PENDING, redditToken, redditTokenExp,
                 pc, req, stage, timer, result, attempted, events, gateStarts, gateQueue>>
  /\ UNCHANGED <<resolverVars, cronVars, tokenLifeEnd>>

\* the times at which a pending timer is due: the sleep of the throttle and
\* the timeout racing each pending fetch
Deadlines ==
  { timer[c] : c \in { d \in Callers : pc[d] = "sleep" } }
    \cup { timer[c] + FETCH_TIMEOUT_MS : c \in { d \in Callers : pc[d] \in {"call", "token"} } }

\* time passes until a pending timer is due
TickToDeadline(t, maxTicks) == t \in Deadlines /\ Advance(t, maxTicks)

\* time passes
Tick(d, maxTicks) == Advance(now + d, maxTicks)

\* time passes up to the last millisecond before a cache or token expiry
TickToExpiry(e, maxTicks) == e \in Expiries /\ Advance(e - 1, maxTicks)

Input(canonical, tf) == [canonical |-> canonical, tf |-> tf]

\* -------------------------------------------------------- specifications
\* SpecChain: one caller, every upstream answer, with and without credentials
ChainCallers == {1}
ChainInputs == { Input("Cooking", "day") }

NextChain ==
  \/ \E c \in ChainCallers, i \in ChainInputs : CallFetchPosts(c, i.canonical, i.tf)
  \/ \E c \in ChainCallers : Wake(c)
  \/ \E c \in ChainCallers : \E ans \in AnswersFor(stage[c]) : Respond(c, ans)
  \/ \E c \in ChainCallers, tans \in TokenAnswers : TokenRespond(c, tans)
  \/ \E c \in ChainCallers, msg \in ErrorMessages : FetchRejects(c, msg)
  \/ \E c \in ChainCallers : Release(c)
  \/ \E t \in Deadlines : TickToDeadline(t, MaxChainTicks)

SpecChain == Init /\ [][NextChain]_vars

\* SpecDedup: concurrent callers, keys that collide after lower-casing
DedupInputs == { Input("Cooking", "day"), Input("cooking", "day") }
DedupAnswers ==
  { Resp(200, NoHeader, TRUE, FALSE, <<1>>), Resp(429, NoHeader, FALSE, FALSE, <<>>) }
DedupTokenAnswers == { TokenResp(401, NoToken, 0, NoHeader) }

NextDedup ==
  \/ \E c \in Callers, i \in DedupInputs : CallFetchPosts(c, i.canonical, i.tf)
  \/ \E c \in Callers : Wake(c)
  \/ \E c \in Callers, ans \in DedupAnswers : Respond(c, ans)
  \/ \E c \in Callers, tans \in DedupTokenAnswers : TokenRespond(c, tans)
  \/ \E c \in Callers, msg \in ErrorMessages : FetchRejects(c, msg)
  \/ \E c \in Callers : Release(c)
  \/ \E t \in Deadlines : TickToDeadline(t, MaxDedupTicks)

SpecDedup == Init /\ [][NextDedup]_vars

\* SpecGate: concurrent callers at the throttle, time passing freely
GateInputs == { Input("cooking", "day"), Input("cooking", "week") }
GateAnswers == { Resp(403, NoHeader, FALSE, FALSE, <<>>), Resp(429, NoHeader, FALSE, FALSE, <<>>) }
GateTokenAnswers == { TokenResp(200, "tok", 0, NoHeader), TokenResp(401, NoToken, 0, NoHeader) }
GateSteps == { MIN_DELAY_MS \div 2, MIN_DELAY_MS }

NextGate ==
  \/ \E c \in Callers, i \in GateInputs : CallFetchPosts(c, i.canonical, i.tf)
  \/ \E c \in Callers : Wake(c)
  \/ \E c \in Callers, ans \in GateAnswers : Respond(c, ans)
  \/ \E c \in Callers, tans \in GateTokenAnswers : TokenRespond(c, tans)
  \/ \E c \in Callers : Release(c)
  \/ \E d \in GateSteps : Tick(d, MaxGateTicks)

SpecGate == Init /\ [][NextGate]_vars

\* SpecCache: entries written, read and expiring, for both timeframes
CacheInputs == { Input("Cooking", "day"), Input("cooking", "week") }
CacheAnswers ==
  { Resp(200, NoHeader, TRUE, TRUE, <<1>>), Resp(200, NoHeader, TRUE, TRUE, <<1, 2, 3, 4, 5, 6>>),
    Resp(429, NoHeader, FALSE, FALSE, <<>>) }
CacheSteps == { 1 }

NextCache ==
  \/ \E c \in ChainCallers, i \in CacheInputs : CallFetchPosts(c, i.canonical, i.tf)
  \/ \E c \in ChainCallers : Wake(c)
  \/ \E c \in ChainCallers, ans \in CacheAnswers : Respond(c, ans)
  \/ \E c \in ChainCallers, tans \in GateTokenAnswers : TokenRespond(c, tans)
  \/ \E c \in ChainCallers, msg \in ErrorMessages : FetchRejects(c, msg)
  \/ \E c \in ChainCallers : Release(c)
  \/ \E d \in CacheSteps : Tick(d, MaxCacheTicks)
  \/ \E t \in Deadlines : TickToDeadline(t, MaxCacheTicks)
  \/ \E e \in Expiries : TickToExpiry(e, MaxCacheTicks)

SpecCache == Init /\ [][NextCache]_vars

\* SpecTrending: one /api/trending request at a time, from the first probe
\* to the response
TrendParams == { Params("cooking", ""), Params("r/Cooking", "day") }
TrendAnswers ==
  { Resp(200, NoHeader, TRUE, TRUE, <<1>>), Resp(403, NoHeader, FALSE, FALSE, <<>>),
    Resp(429, NoHeader, FALSE, FALSE, <<>>), Resp(429, Header(<<"4", "5">>), FALSE, FALSE, <<>>) }

NextTrending ==
  \/ \E c \in ChainCallers, p \in TrendParams :
       ticks < MaxArrivalTicks /\ trending(c, p.subreddit, p.timeframe)
  \/ \E c \in ChainCallers : Wake(c)
  \/ \E c \in ChainCallers, a \in AboutAnswers : AboutRespond(c, a)
  \/ \E c \in ChainCallers, pg \in PageAnswers : PageRespond(c, pg)
  \/ \E c \in ChainCallers, msg \in ErrorMessages : ProbeRejects(c, msg)
  \/ \E c \in ChainCallers, ans \in TrendAnswers : Respond(c, ans)
  \/ \E c \in ChainCallers, tans \in GateTokenAnswers : TokenRespond(c, tans)
  \/ \E c \in ChainCallers, msg \in ErrorMessages : FetchRejects(c, msg)
  \/ \E c \in ChainCallers : TrendingReply(c)
  \/ \E t \in Deadlines : TickToDeadline(t, MaxTrendTicks)

SpecTrending == Init /\ [][NextTrending]_vars

\* SpecFeed: one caller whose JSON stages all answer an empty listing, so
\* that the RSS and HTML stages decide
FeedEntries ==
  { <<>>, <<1>>, <<1, 2, 3>>, <<1, 2, 3, 4, 5>>, <<1, 2, 3, 4, 5, 6>>, <<Blank>>, <<1, Blank>> }
FeedRows == { <<>>, <<1>>, <<Blank>>, <<1, 2, 3, 4, 5, 6>> }
FeedAnswers(s) ==
  IF IsJsonStage(s) THEN { Resp(200, NoHeader, TRUE, FALSE, <<>>) }
  ELSE IF s = "rss"
    THEN { Resp(200, NoHeader, FALSE, TRUE, e) : e \in FeedEntries }
           \cup { Resp(200, NoHeader, FALSE, FALSE, <<>>), Resp(403, NoHeader, FALSE, FALSE, <<>>) }
  ELSE { Resp(200, NoHeader, FALSE, FALSE, r) : r \in FeedRows }
FeedTokenAnswers == { TokenResp(200, "tok", 0, NoHeader) }

NextFeed ==
  \/ \E c \in ChainCallers, i \in CacheInputs : CallFetchPosts(c, i.canonical, i.tf)
  \/ \E c \in ChainCallers : Wake(c)
  \/ \E c \in ChainCallers : \E ans \in FeedAnswers(stage[c]) : Respond(c, ans)
  \/ \E c \in ChainCallers, tans \in FeedTokenAnswers : TokenRespond(c, tans)
  \/ \E c \in ChainCallers : Release(c)
  \/ \E t \in Deadlines : TickToDeadline(t, MaxFeedTicks)
  \/ \E e \in Expiries : TickToExpiry(e, MaxFeedTicks)

SpecFeed == Init /\ [][NextFeed]_vars

\* SpecWindow: concurrent callers of one key while its entry is written,
\* served and expires
WindowAnswers ==
  { Resp(200, NoHeader, TRUE, TRUE, <<1>>), Resp(403, NoHeader, FALSE, FALSE, <<>>) }

NextWindow ==
  \/ \E c \in Callers, i \in DedupInputs : CallFetchPosts(c, i.canonical, i.tf)
  \/ \E c \in Callers : Wake(c)
  \/ \E c \in Callers, ans \in WindowAnswers : Respond(c, ans)
  \/ \E c \in Callers, tans \in DedupTokenAnswers : TokenRespond(c, tans)
  \/ \E c \in Callers : Release(c)
  \/ \E d \in CacheSteps : Tick(d, MaxWindowTicks)
  \/ \E t \in Deadlines : TickToDeadline(t, MaxWindowTicks)
  \/ \E e \in Expiries : TickToExpiry(e, MaxWindowTicks)

SpecWindow == Init /\ [][NextWindow]_vars

\* SpecResolve: resolutions that reach the front pages, the pages holding
\* every combination of captures of the four patterns
PageNames == {"", "Cooking", "cooking"}
ResolveAbouts ==
  { About(403, TRUE, FALSE, Undefined, ""), About(500, FALSE, FALSE, Undefined, "") }
ResolvePages ==
  { Page(200, Text(og, link, desc, title, {})) : og \in PageNames, link \in PageNames,
                                                 desc \in PageNames, title \in PageNames }
    \cup { Page(404, EmptyText), Page(403, Text("Cooking", "", "", "", {})) }
ResolveAnswers == { Resp(200, NoHeader, TRUE, FALSE, <<1>>) }

NextResolve ==
  \/ \E c \in ChainCallers, p \in TrendParams :
       ticks < MaxArrivalTicks /\ trending(c, p.subreddit, p.timeframe)
  \/ \E c \in ChainCallers : Wake(c)
  \/ \E c \in ChainCallers, a \in ResolveAbouts : AboutRespond(c, a)
  \/ \E c \in ChainCallers, pg \in ResolvePages : PageRespond(c, pg)
  \/ \E c \in ChainCallers, ans \in ResolveAnswers : Respond(c, ans)
  \/ \E c \in ChainCallers, tans \in DedupTokenAnswers : TokenRespond(c, tans)
  \/ \E c \in ChainCallers : TrendingReply(c)
  \/ \E t \in Deadlines : TickToDeadline(t, MaxResolveTicks)

SpecResolve == Init /\ [][NextResolve]_vars

\* SpecLive: concurrent callers of one key, with the scheduling the runtime
\* guarantees: a due timer fires, time passes, and every request sent is
\* answered or rejected (the timeout of fetchWithTimeout being one rejection)

\* clock advances one run can need: for each stage one sleep at the throttle
\* or one wait for its answer, and as much before it for the token exchange
\* and the first request
ChainTicks == Len(StageOrder) + 2
LiveAnswers ==
  { Resp(200, NoHeader, TRUE, FALSE, <<1>>), Resp(403, NoHeader, FALSE, FALSE, <<>>),
    Resp(429, NoHeader, FALSE, FALSE, <<>>) }

Upstream(c) ==
  \/ \E ans \in LiveAnswers : Respond(c, ans)
  \/ \E tans \in GateTokenAnswers : TokenRespond(c, tans)
  \/ FetchRejects(c, TimeoutMsg)

TimePasses == \E t \in Deadlines : TickToDeadline(t, MaxLiveTicks)

NextLive ==
  \/ \E c \in Callers, i \in DedupInputs :
       ticks + ChainTicks <= MaxLiveTicks /\ CallFetchPosts(c, i.canonical, i.tf)
  \/ \E c \in Callers : Wake(c)
  \/ \E c \in Callers : Upstream(c)
  \/ TimePasses

Fairness ==
  /\ \A c \in Callers : WF_vars(Wake(c)) /\ WF_vars(Upstream(c))
  /\ WF_vars(TimePasses)

SpecLive == Init /\ [][NextLive]_vars /\ Fairness

\* SpecCron: subscriptions made and confirmed, and the digest job run at
\* half-day and three-day steps of the clock
Emails == {"ann"}
CronNames == {"cooking", "Cooking"}
CronTimeframes == {"day", "week", ""}
CronSteps == { 12 * 60 * 60 * 1000, 3 * 24 * 60 * 60 * 1000 }
CronProbes ==
  { <<About(200, TRUE, TRUE, "Cooking", "public"), NoAnswer, NoPage, NoPage>>,
    <<About(200, TRUE, TRUE, Undefined, "public"), NoAnswer, NoPage, NoPage>>,
    <<About(403, TRUE, FALSE, Undefined, ""), NoAnswer,
      Page(200, Text("", "", "", "Cooking", {"private"})), Page(403, EmptyText)>>,
    <<About(404, TRUE, FALSE, Undefined, ""), About(404, TRUE, FALSE, Undefined, ""),
      Page(404, EmptyText), Page(404, EmptyText)>> }
NotAsked == Resp(0, NoHeader, FALSE, FALSE, <<>>)
CronFetches ==
  { <<Resp(200, NoHeader, TRUE, FALSE, <<1, 2, 3, 4, 5, 6>>), NotAsked, NotAsked, NotAsked>>,
    <<Resp(403, NoHeader, FALSE, FALSE, <<>>), Resp(403, NoHeader, FALSE, FALSE, <<>>),
      Resp(403, NoHeader, FALSE, FALSE, <<>>), Resp(200, NoHeader, FALSE, TRUE, <<1>>)>>,
    <<Resp(403, NoHeader, FALSE, FALSE, <<>>), Resp(429, NoHeader, FALSE, FALSE, <<>>),
      Resp(500, NoHeader, FALSE, FALSE, <<>>), Resp(429, NoHeader, FALSE, FALSE, <<>>)>>,
    <<Resp(200, NoHeader, TRUE, FALSE, <<>>), Resp(200, NoHeader, TRUE, FALSE, <<>>),
      Resp(200, NoHeader, TRUE, FALSE, <<>>), Resp(200, NoHeader, FALSE, FALSE, <<>>)>> }
CronRejects == {"none", "resolve", "fetch", "mail", "update"}

\* what happens to one row: every resolution, every fetch, every rejection
Found1 == CHOOSE probes \in CronProbes : probes[1].display_name = "Cooking"
Listed1 == CHOOSE answers \in CronFetches : CronListed(answers[1])
CronInputs ==
  { <<probes, Listed1, "none">> : probes \in CronProbes }
    \cup { <<Found1, answers, "none">> : answers \in CronFetches }
    \cup { <<Found1, Listed1, rejects>> : rejects \in CronRejects }

NextCron ==
  \/ \E email \in Emails, name \in CronNames, tf \in CronTimeframes : subscribe(email, name, tf)
  \/ \E token \in 1..MaxTokens : confirm(token)
  \/ \E sub \in confirming : confirmUpdate(sub)
  \/ CronStart
  \/ \E in \in CronInputs : CronRow(in[1], in[2], in[3])
  \/ \E d \in CronSteps : CronTick(d)

SpecCron == Init /\ [][NextCron]_vars

\* SpecAgain: requests for one subreddit that follow each other, the later
\* ones arriving while the cache holds the posts of the earlier ones
AgainAbouts == { About(200, TRUE, TRUE, "Cooking", "public") }

NextAgain ==
  \/ \E c \in ChainCallers, p \in TrendParams : trending(c, p.subreddit, p.timeframe)
  \/ \E c \in ChainCallers : Wake(c)
  \/ \E c \in ChainCallers, a \in AgainAbouts : AboutRespond(c, a)
  \/ \E c \in ChainCallers, ans \in WindowAnswers : Respond(c, ans)
  \/ \E c \in ChainCallers, tans \in DedupTokenAnswers : TokenRespond(c, tans)
  \/ \E c \in ChainCallers : TrendingReply(c)
  \/ \E t \in Deadlines : TickToDeadline(t, MaxAgainTicks)

SpecAgain == Init /\ [][NextAgain]_vars

\* SpecStatuses: resolutions in which no 'about' probe succeeds, every probe
\* being answered with any of the failure statuses
FailureStatuses == {403, 404, 429, 500}
AboutFailures ==
  { About(st, FALSE, FALSE, Undefined, "") : st \in FailureStatuses }
    \cup { About(200, TRUE, FALSE, Undefined, "") }
PageStatuses ==
  { Page(st, EmptyText) : st \in FailureStatuses }
    \cup { Page(200, Text("", "Cooking", "", "", {})), Page(403, Text("Cooking", "", "", "", {"invited"})) }
StatusParams == { Params(sub, "day") : sub \in Subreddits }

NextStatuses ==
  \/ \E c \in ChainCallers, p \in StatusParams :
       ticks < MaxArrivalTicks /\ trending(c, p.subreddit, p.timeframe)
  \/ \E c \in ChainCallers : Wake(c)
  \/ \E c \in ChainCallers, a \in AboutFailures : AboutRespond(c, a)
  \/ \E c \in ChainCallers, pg \in PageStatuses : PageRespond(c, pg)
  \/ \E c \in ChainCallers, ans \in ResolveAnswers : Respond(c, ans)
  \/ \E c \in ChainCallers, tans \in DedupTokenAnswers : TokenRespond(c, tans)
  \/ \E c \in ChainCallers : TrendingReply(c)
  \/ \E t \in Deadlines : TickToDeadline(t, MaxStatusTicks)

SpecStatuses == Init /\ [][NextStatuses]_vars

\* SpecRun: runs of the digest job over 'day' subscriptions at one moment,
\* every await of a turn resolving or rejecting
RunEmails == {"ann", "bob"}

NextRun ==
  \/ \E email \in RunEmails, name \in CronNames : subscribe(email, name, "day")
  \/ \E token \in 1..MaxTokens : confirm(token)
  \/ \E sub \in confirming : confirmUpdate(sub)
  \/ CronStart
  \/ \E in \in CronInputs : CronRow(in[1], in[2], in[3])

SpecRun == Init /\ [][NextRun]_vars

TypeOK ==
  /\ pc \in [Callers -> {"idle", "waiting", "sleep", "call", "token", "done"}]
  /\ \A k \in Keys : PENDING[k] \in 0..NumCallers
  /\ \A c \in Callers : stage[c] \in Stages \cup Probes


\* ---------------------------------------------------------------- claims
RanChain(c) == attempted[c] # <<>>
Leader(c) == pc[c] \in {"sleep", "call", "token"}
InProgress(c) == pc[c] \in {"waiting", "sleep", "call", "token"}
Calls(c) == pc[c] = "idle" /\ pc'[c] # "idle"
CacheHitUrl == <<"cache", "">>
PlainUnavailable(out) == ~out.ok /\ ~out.rateLimited /\ ~out.timeout
PositionIn(seq, s) == CHOOSE j \in 1..Len(seq) : seq[j] = s
PositiveInteger(h) == h.present /\ ~parseInt(h.text).nan /\ parseInt(h.text).val > 0

C1_OneChainPerKey ==
  /\ \A k \in Keys : Cardinality({ c \in Callers : Leader(c) /\ KeyOf(c) = k }) <= 1
  /\ \A c \in Callers :
       pc[c] = "waiting" =>
         \E d \in Callers : Leader(d) /\ KeyOf(d) = KeyOf(c) /\ PENDING[KeyOf(c)] = d

C1_SameOutcome ==
  \A c, d \in Callers :
    (InProgress(c) /\ InProgress(d) /\ KeyOf(c) = KeyOf(d) /\ pc'[c] = "done") =>
      pc'[d] = "done" /\ result'[d] = result'[c]

\* C1: concurrent fetchPosts calls that share a cache key and are not served
\* from the cache are served by exactly one fallback chain (one run per key,
\* every other caller awaiting it), and all of them return the same outcome
C1_SingleFlight == []C1_OneChainPerKey /\ [][C1_SameOutcome]_vars

\* a waiter and the run's owner, called with different spellings of the
\* name, have both returned the same rateLimited failure
C1_Witness ==
  \E c, d \in Callers :
    /\ c # d /\ pc[c] = "done" /\ pc[d] = "done"
    /\ RanChain(d) /\ ~RanChain(c)
    /\ result[c].rateLimited /\ result[c] = result[d]
    /\ req[c].canonical # req[d].canonical

\* C2: no two upstream calls that passed the throttle start less than
\* MIN_DELAY_MS (1200 ms) apart, whatever the number of concurrent callers
C2_GateSpacing ==
  Len(gateStarts) = 2 => gateStarts[2] - gateStarts[1] >= 1200

C3_HitStep ==
  \A c \in Callers :
    LET k == KeyOf(c)' IN
    (Calls(c) /\ CACHE[k].has /\ now < CACHE[k].exp) =>
      /\ pc'[c] = "done"
      /\ result'[c] = Ok(CACHE[k].data, CacheHitUrl)
      /\ attempted'[c] = <<>>
      /\ UNCHANGED <<lastRedditCall, gateStarts, redditToken, redditTokenExp, PENDING, CACHE>>
      /\ \A d \in Callers : pc'[d] \in {"sleep", "call", "token"} => pc'[d] = pc[d]

\* C3: with a non-expired cache entry for the key, fetchPosts returns that
\* entry's posts without passing the throttle and without any upstream call
\* (no token exchange, no stage request)
C3_CacheHitNoUpstream == [][C3_HitStep]_vars

C3_Witness ==
  \E c \in Callers :
    pc[c] = "done" /\ result[c].ok /\ result[c].used = CacheHitUrl /\ result[c].posts # <<>>

\* C4: when the first upstream call of a chain, the token exchange included,
\* answers 429, fetchPosts returns rateLimited at once, with retryAfter the
\* Retry-After value (30 when the header is absent), and no later stage is
\* attempted
C4_First429IsReturned ==
  \A c \in Callers :
    (events[c] # <<>> /\ events[c][1].signal = "rate") =>
      /\ pc[c] = "done"
      /\ ~result[c].ok /\ result[c].rateLimited
      /\ ~events[c][1].retry.present => result[c].retryAfter = 30
      /\ PositiveInteger(events[c][1].retry) =>
           result[c].retryAfter = parseInt(events[c][1].retry.text).val
      /\ Len(attempted[c]) = 1

\* C5: a call that runs into the fetch timeout ends the chain at that stage
\* with the timeout failure; no later stage is attempted
C5_TimeoutStopsChain ==
  \A c \in Callers : \A i \in 1..Len(events[c]) :
    events[c][i].signal = "timeout" =>
      /\ i = Len(events[c])
      /\ pc[c] = "done"
      /\ result[c] = TimeoutOut
      /\ Last(attempted[c]) = events[c][i].stage

\* the www JSON request timed out and the run returned the timeout failure
C5_Witness ==
  \E c \in Callers :
    /\ pc[c] = "done" /\ result[c].timeout
    /\ events[c] # <<>> /\ Last(events[c]).signal = "timeout"
    /\ Last(events[c]).stage = "www"

\* C6: the stages are attempted in the fixed order OAuth, api, www, old, RSS,
\* HTML, one at a time, a stage only after every earlier one ended without
\* posts and without a rate-limit or timeout answer, and none after a success
C6_StagesInOrderUntilStop ==
  \A c \in Callers :
    /\ Len(attempted[c]) <= Len(ConfiguredStages(creds))
    /\ attempted[c] = SubSeq(ConfiguredStages(creds), 1, Len(attempted[c]))
    /\ \A i \in 1..Len(events[c]) :
         events[c][i].signal \in {"posts", "rate", "timeout"} =>
           Last(attempted[c]) = events[c][i].stage

\* C7: plain unavailable is returned only after every configured stage was
\* attempted and none produced posts, and a stage failure that is neither 429
\* nor a timeout makes the chain advance to the next stage
C7_UnavailableOnlyAfterAllStages ==
  \A c \in Callers :
    /\ (pc[c] = "done" /\ RanChain(c) /\ PlainUnavailable(result[c])) =>
         /\ attempted[c] = ConfiguredStages(creds)
         /\ \A i \in 1..Len(events[c]) : events[c][i].signal # "posts"
    /\ \A i \in 1..Len(events[c]) :
         events[c][i].signal = "none" =>
           LET s == events[c][i].stage
               j == PositionIn(attempted[c], s)
           IN IF HasNext(s)
                THEN j < Len(attempted[c]) /\ attempted[c][j + 1] = NextStage(s)
                ELSE pc[c] = "done" /\ PlainUnavailable(result[c])

\* the token exchange was refused, the run went through all six stages and
\* returned plain unavailable
C7_Witness ==
  \E c \in Callers :
    /\ pc[c] = "done" /\ PlainUnavailable(result[c])
    /\ attempted[c] = StageOrder
    /\ events[c][1].call = "token" /\ events[c][1].signal = "none"

C8_EntryOnlyWhileRunning ==
  \A k \in Keys : PENDING[k] # 0 => Leader(PENDING[k]) /\ KeyOf(PENDING[k]) = k

C8_RetryStep ==
  \A c \in Callers :
    LET k == KeyOf(c)' IN
    (Calls(c) /\ ~(CACHE[k].has /\ now < CACHE[k].exp)
       /\ ~\E d \in Callers : Leader(d) /\ KeyOf(d) = k) =>
      /\ pc'[c] \in {"sleep", "call", "token"}
      /\ attempted'[c] = <<FirstStage(creds)>>
      /\ PENDING'[k] = c

\* C8: the in-flight entry of a key exists only while its run is unsettled,
\* whether the run succeeds or fails, so the next call for the key after a
\* settled failure starts a new chain
C8_FailureDoesNotBlock == []C8_EntryOnlyWhileRunning /\ [][C8_RetryStep]_vars

\* one caller holds the failure of its own run while another one's new run
\* for the same key is in flight
C8_Witness ==
  \E c, d \in Callers :
    /\ c # d /\ pc[c] = "done" /\ RanChain(c) /\ ~result[c].ok
    /\ Leader(d) /\ KeyOf(d) = KeyOf(c) /\ PENDING[KeyOf(c)] = d

C9_WriteStep ==
  \A k \in Keys :
    CACHE'[k] # CACHE[k] =>
      /\ CACHE'[k].has
      /\ CACHE'[k].exp = now + (IF k[2] = "day" THEN 300000 ELSE 3600000)

C9_ReadStep ==
  \A c \in Callers :
    LET k == KeyOf(c)' IN
    (Calls(c) /\ CACHE[k].has) =>
      IF now < CACHE[k].exp
        THEN pc'[c] = "done" /\ result'[c] = Ok(CACHE[k].data, CacheHitUrl)
        ELSE pc'[c] # "done"

\* C9: an entry for "day" expires 5 minutes after it was written, one for any
\* other timeframe 60 minutes after; from its expiry on fetchPosts never
\* returns it, before its expiry it does
C9_Expiry == [][C9_WriteStep /\ C9_ReadStep]_vars

\* a call made at the very millisecond a "day" entry expires started a run
C9_Witness ==
  \E c \in Callers :
    /\ Leader(c) /\ req[c].tf = "day"
    /\ CACHE[KeyOf(c)].has /\ now = CACHE[KeyOf(c)].exp

C10_FailStep ==
  \A c \in Callers :
    (Leader(c) /\ pc'[c] = "done" /\ ~result'[c].ok) => CACHE' = CACHE

\* C10: a chain that ends in rateLimited, timeout or unavailable writes
\* nothing to the cache: no new entry, and an older entry stays as it was
C10_FailureNotCached == [][C10_FailStep]_vars

\* a run has failed while the key's older, expired entry is still stored
C10_Witness ==
  \E c \in Callers :
    /\ pc[c] = "done" /\ RanChain(c) /\ ~result[c].ok
    /\ CACHE[KeyOf(c)].has /\ now >= CACHE[KeyOf(c)].exp
\* the step in which the pending probe of caller c is answered
Answered(c) ==
  /\ pc[c] = "call" /\ stage[c] \in Probes /\ heard'[c] # NoAnswer
  /\ pc'[c] # "call" \/ stage'[c] # stage[c]

C11_ApiAboutStep ==
  \A c \in Callers :
    (pc[c] = "call" /\ stage[c] = "api.about" /\ AboutSucceeds(heard'[c])) =>
      /\ info'[c].exists
      /\ info'[c].canonical = heard'[c].display_name
      /\ info'[c].type =
           (IF heard'[c].subreddit_type = "" THEN "public" ELSE heard'[c].subreddit_type)
      /\ info'[c].source = "api.about"
      /\ probed'[c] = <<"api.about">>

C11_NoFurtherProbe ==
  \A c \in Callers :
    info[c].source = "api.about" => info[c].exists /\ probed[c] = <<"api.about">>

\* C11: when the api 'about' probe answers 200 with a data payload,
\* resolveSubreddit returns exists = true, canonical = the payload's
\* display_name, type = its subreddit_type ('public' when absent) and source
\* api.about, and no further probe is issued
C11_ApiAboutIsTrusted == []C11_NoFurtherProbe /\ [][C11_ApiAboutStep]_vars

\* resolve("cooking") was answered with display_name Cooking and no
\* subreddit_type by the first probe
C11_Witness ==
  \E c \in Callers :
    /\ params[c].subreddit = "cooking"
    /\ heard[c] = About(200, TRUE, TRUE, "Cooking", "")
    /\ info[c] = Found("Cooking", "public", 200, "api.about")
    /\ probed[c] = <<"api.about">>

C12_Both404Step ==
  \A c \in Callers :
    (Answered(c) /\ stage[c] = "old.html" /\ h1[c].status = 404 /\ heard'[c].status = 404) =>
      /\ info'[c] = NotFound
      /\ reply'[c].status = 404
      /\ pc'[c] = "idle"
      /\ attempted'[c] = <<>>
      /\ UNCHANGED <<CACHE, PENDING, lastRedditCall, gateStarts, redditToken>>

C12_NoStageAfterNotFound ==
  \A c \in Callers :
    ~info[c].exists /\ info[c] # NoInfo =>
      /\ info[c] = NotFound
      /\ reply[c] = NotFoundReply
      /\ pc[c] = "idle"
      /\ attempted[c] = <<>> /\ events[c] = <<>>

\* C12: when the www and the old front page both answer 404,
\* resolveSubreddit returns exists = false and the trending handler answers
\* 404 without starting any fetchPosts stage
C12_NotFoundStopsTheRequest == []C12_NoStageAfterNotFound /\ [][C12_Both404Step]_vars

\* all four probes were issued, both pages were 404, the request got 404
C12_Witness ==
  \E c \in Callers :
    /\ probed[c] = ProbeOrder
    /\ heard[c] = Page(404, EmptyText)
    /\ info[c] = NotFound
    /\ reply[c].status = 404

IsPrefix(a, b) == Len(a) <= Len(b) /\ a = SubSeq(b, 1, Len(a))

C13_Order ==
  \A c \in Callers :
    \/ IsPrefix(probed[c], ProbeOrder)
    \/ IsPrefix(probed[c], <<"api.about", "www.html", "old.html">>)

C13_NextProbeStep ==
  \A c \in Callers :
    Answered(c) =>
      /\ (stage[c] = "api.about") =>
           ((probed'[c] = Append(probed[c], "www.about"))
              <=> (~AboutSucceeds(heard'[c]) /\ heard'[c].status # 403))
      /\ (IsAboutProbe(stage[c]) /\ AboutSucceeds(heard'[c])) =>
           probed'[c] = probed[c] /\ info'[c].exists
      /\ (IsAboutProbe(stage[c]) /\ ~AboutSucceeds(heard'[c])
            /\ (stage[c] = "www.about" \/ heard'[c].status = 403)) =>
           probed'[c] = Append(probed[c], "www.html")
      /\ (stage[c] = "www.html") => probed'[c] = Append(probed[c], "old.html")
      /\ (stage[c] = "old.html") => probed'[c] = probed[c]

\* C13: the probes are issued in the order api 'about', www 'about', www
\* HTML, old HTML; an 'about' probe answering 200 with data ends the
\* resolution, and the www 'about' probe is issued exactly when the api one
\* did not succeed and its status was not 403
C13_ProbesInOrder == []C13_Order /\ [][C13_NextProbeStep]_vars

\* the api probe answered 403: the www 'about' probe was left out and the
\* two pages decided
C13_Witness ==
  \E c \in Callers :
    /\ probed[c] = <<"api.about", "www.html", "old.html">>
    /\ info[c].exists /\ info[c].source = "html"

\* what a call of fetchPosts for key k by caller c makes of the state
C14_StartsLikeAnyCall(c, k) ==
  IF CACHE[k].has /\ now < CACHE[k].exp
    THEN pc'[c] = "done" /\ result'[c] = Ok(CACHE[k].data, CacheHitUrl)
  ELSE IF PENDING[k] # 0
    THEN pc'[c] = "waiting"
  ELSE /\ PENDING'[k] = c
       /\ attempted'[c] = <<FirstStage(creds)>>
       /\ pc'[c] \in {"sleep", "call", "token"}

C14_GatedStep ==
  \A c \in Callers :
    (Answered(c) /\ stage[c] = "old.html"
       /\ htmlLooksProtected(HtmlOf(h1[c], heard'[c]))) =>
      /\ info'[c].exists /\ info'[c].type = "maybe_gated"
      /\ reply'[c] = NoReply
      /\ req'[c] = [canonical |-> info'[c].canonical,
                    tf |-> timeframeOf(params[c].timeframe)]
      /\ C14_StartsLikeAnyCall(c, cacheKey(info'[c].canonical, timeframeOf(params[c].timeframe)))

C14_GatedRunsTheChain ==
  \A c \in Callers :
    info[c].type = "maybe_gated" =>
      /\ info[c].exists
      /\ reply[c].status \notin {404, 500}
      /\ IsPrefix(attempted[c], ConfiguredStages(creds))
      /\ reply[c].status = 503 => attempted[c] = ConfiguredStages(creds)

\* C14: a gating marker found in the probed pages never yields exists =
\* false or an error: the result is exists = true with type maybe_gated, and
\* the handler calls fetchPosts for it, which goes through the stages as for
\* any other result
C14_GatingIsNotAnError == []C14_GatedRunsTheChain /\ [][C14_GatedStep]_vars

\* a maybe_gated result was followed by every stage of the chain and the
\* request was answered 503
C14_Witness ==
  \E c \in Callers :
    /\ info[c].type = "maybe_gated"
    /\ attempted[c] = ConfiguredStages(creds)
    /\ reply[c].status = 503

\* fetchPosts has returned to the handler of caller c, which has answered
Returned(c) == reply[c] # NoReply /\ info[c].exists /\ info[c].canonical # Undefined

\* C15: the trending handler answers 429 with fetchPosts' retryAfter for
\* rateLimited, 504 for timeout, 503 for unavailable, 404 when the
\* resolution found nothing, and 200 with the post list for a success; each
\* of these statuses is sent for that outcome only
C15_OutcomeToStatus ==
  \A c \in Callers :
    reply[c] # NoReply =>
      /\ reply[c].status \in {200, 404, 429, 500, 503, 504}
      /\ reply[c].status = 404 <=> info[c] = NotFound
      /\ reply[c].status = 200 <=> (Returned(c) /\ result[c].ok)
      /\ reply[c].status = 200 => reply[c].posts = result[c].posts
      /\ reply[c].status = 429 <=> (Returned(c) /\ result[c].rateLimited)
      /\ reply[c].status = 429 => reply[c].retryAfter = result[c].retryAfter
      /\ reply[c].status = 504 <=> (Returned(c) /\ result[c].timeout)
      /\ reply[c].status = 503 <=> (Returned(c) /\ PlainUnavailable(result[c]))

\* a stage was answered 429 with Retry-After: 45 and the request got 429
\* with retryAfter 45
C15_Witness ==
  \E c \in Callers :
    /\ result[c] = RateLimitedOut(45)
    /\ reply[c].status = 429 /\ reply[c].retryAfter = 45

\* the stages of caller c's run that come after the OAuth block
C16_PlainStages(c) ==
  IF attempted[c] # <<>> /\ Head(attempted[c]) = "oauth" THEN Tail(attempted[c]) ELSE attempted[c]

\* C16: without OAuth credentials fetchPosts makes no token exchange and no
\* OAuth request and fails nowhere because of it; its run starts at the api
\* JSON endpoint and goes through the same stages, in the same order, as a
\* run with credentials goes through after its OAuth stage
C16_NoCredsSkipsOAuth ==
  \A c \in Callers :
    /\ IsPrefix(C16_PlainStages(c), Tail(StageOrder))
    /\ ~creds =>
         /\ pc[c] # "token"
         /\ attempted[c] = C16_PlainStages(c)
         /\ \A i \in 1..Len(events[c]) :
              events[c][i].call # "token" /\ events[c][i].stage # "oauth"
         /\ redditToken = NoToken /\ redditTokenExp = 0

\* without credentials a run went from the api endpoint to the HTML page and
\* returned unavailable
C16_Witness ==
  \E c \in Callers :
    /\ ~creds /\ pc[c] = "done"
    /\ attempted[c] = Tail(StageOrder)
    /\ PlainUnavailable(result[c])

\* getRedditToken is called: the run of caller c enters the OAuth block
C17_AsksForToken(c) ==
  attempted'[c] # attempted[c] /\ attempted'[c] # <<>> /\ Last(attempted'[c]) = "oauth"

C17_GetStep ==
  \A c \in Callers :
    C17_AsksForToken(c) =>
      IF redditToken # NoToken /\ now < redditTokenExp
        THEN pc'[c] \in {"sleep", "call"} /\ UNCHANGED <<redditToken, redditTokenExp>>
        ELSE pc'[c] = "token" /\ timer'[c] = now

C17_ReplaceStep ==
  (redditToken' # redditToken \/ redditTokenExp' # redditTokenExp) =>
    \E c \in Callers :
      /\ pc[c] = "token" /\ pc'[c] # "token"
      /\ Last(events'[c]).call = "token" /\ Last(events'[c]).signal = "ok"
      /\ redditToken' # NoToken
      /\ redditTokenExp' >= now + 60 * 1000

C17_FailedStep ==
  \A c \in Callers :
    (pc[c] = "token" /\ pc'[c] # "token" /\ Last(events'[c]).signal # "ok") =>
      UNCHANGED <<redditToken, redditTokenExp>>

\* C17: getRedditToken returns the cached token without an upstream call
\* while the time is before the cached expiry, and otherwise posts one
\* exchange; an accepted exchange replaces token and expiry together, a
\* failed one leaves both as they were
C17_TokenCache == [][C17_GetStep /\ C17_ReplaceStep /\ C17_FailedStep]_vars

\* a run is in its OAuth request with the token an earlier run obtained,
\* without an exchange of its own
C17_Witness ==
  \E c \in Callers :
    /\ attempted[c] = <<"oauth">> /\ pc[c] = "call" /\ events[c] = <<>>
    /\ redditToken # NoToken /\ now < redditTokenExp

\* C18: at most one client-credentials exchange is in flight at any time,
\* also when runs for different keys reach the OAuth stage together without
\* a valid cached token
C18_OneRefreshInFlight ==
  Cardinality({ c \in Callers : pc[c] = "token" }) <= 1

\* caller c sends a request upstream in this step
C19_Sends(c) ==
  /\ pc'[c] \in {"call", "token"}
  /\ pc[c] # pc'[c] \/ stage'[c] # stage[c]

\* C19: every request sent upstream (a resolution probe, the token exchange,
\* an OAuth, JSON, RSS or HTML request) has passed the throttle in the step
\* that sends it, which takes the slot: lastRedditCall = Date.now()
C19_EveryCallGated ==
  [][\A c \in Callers : C19_Sends(c) => lastRedditCall' = now]_vars

\* the same for every request but the token exchange
C19_RequestsGated ==
  [][\A c \in Callers : (C19_Sends(c) /\ pc'[c] = "call") => lastRedditCall' = now]_vars

\* the request of caller c leaves the throttle in this step
C20_Leaves(c) ==
  /\ pc'[c] = "call"
  /\ pc[c] # "call" \/ stage'[c] # stage[c]

\* C20: callers leave the throttle in the order in which they invoked it: a
\* caller's request starts only when no caller that arrived earlier is still
\* waiting in redditThrottle
C20_FifoAtTheGate ==
  [][\A c \in Callers : C20_Leaves(c) => (gateQueue = <<>> \/ Head(gateQueue) = c)]_vars

\* C21: every post list fetchPosts returns or the cache holds has at most
\* five posts, whichever stage produced it (OAuth, JSON, RSS, HTML) and when
\* it is served from the cache
C21_AtMostFive ==
  /\ \A c \in Callers : Len(result[c].posts) <= TOP_N
  /\ \A k \in Keys : Len(CACHE[k].data) <= TOP_N

\* a list of five cut from six rows by the HTML stage is served from the cache
C21_Witness ==
  \E c \in Callers :
    /\ pc[c] = "done" /\ result[c].ok /\ result[c].used = CacheHitUrl
    /\ Len(result[c].posts) = TOP_N
    /\ result[c].posts[1].source = "html"
    /\ CACHE[KeyOf(c)].data = result[c].posts

\* C22: every post fetchPosts returns, from any stage, has a non-empty title
\* and a url or a permalink that is not null
C22_PostsAreWellFormed ==
  \A c \in Callers : \A i \in 1..Len(result[c].posts) :
    LET post == result[c].posts[i] IN
    /\ post.title \notin {"", Null, Undefined}
    /\ post.url \notin {Null, Undefined} \/ post.permalink \notin {Null, Undefined}

\* the entries of an RSS answer all carry a title and a link
ValidEntries(items) ==
  \A i \in 1..Len(items) : Entry(items[i]).title # "" /\ Entry(items[i]).link # ""

\* C25: when every JSON stage answered an empty child list and the feed
\* holds k valid entries, 1 <= k <= 5, fetchPosts returns exactly those k
\* posts, each tagged rss with null score, author and comment count, and the
\* HTML stage is not attempted
C25_RssStep ==
  \A c \in Callers : \A ans \in FeedAnswers("rss") :
    ( /\ stage[c] = "rss" /\ Respond(c, ans)
      /\ ans.status = 200 /\ Len(ans.items) \in 1..TOP_N /\ ValidEntries(ans.items) )
    => /\ pc'[c] = "done" /\ result'[c].ok
       /\ Len(result'[c].posts) = Len(ans.items)
       /\ \A i \in 1..Len(ans.items) :
            LET post == result'[c].posts[i] IN
            /\ post.title = Entry(ans.items[i]).title
            /\ post.url = Entry(ans.items[i]).link
            /\ post.source = "rss"
            /\ post.score = Null /\ post.author = Null /\ post.num_comments = Null
       /\ \A j \in 1..Len(attempted'[c]) : attempted'[c][j] # "html"

C25_RssFallback == [][C25_RssStep]_vars

\* three JSON stages answered nothing and the feed's three entries came back
C25_Witness ==
  \E c \in Callers :
    /\ pc[c] = "done" /\ result[c].ok
    /\ attempted[c] = <<"api", "www", "old", "rss">>
    /\ Len(events[c]) = 4 /\ \A j \in 1..3 : events[c][j].signal = "none"
    /\ Len(result[c].posts) = 3
    /\ \A i \in 1..3 : /\ result[c].posts[i].source = "rss" /\ result[c].posts[i].score = Null
                        /\ result[c].posts[i].title = Names[i]

\* the accessibility a resolution result reports: its type, or not-found
\* for { exists: false, reason: 'not_found' }
accessibility(inf) == IF ~inf.exists THEN inf.reason ELSE inf.type
AccessClasses == {"public", "maybe_gated", "unknown", "not_found"}

\* C23: the accessibility of every resolution result is one of public,
\* gated-maybe, unknown and not-found, whatever the 'about' payload holds
C23_FourClasses ==
  \A c \in Callers : info[c] # NoInfo => accessibility(info[c]) \in AccessClasses

\* the entry of key k is inside its lifetime
C30_InWindow(k) == CACHE[k].has /\ now < CACHE[k].exp

C30_NoChain ==
  \A k \in Keys : C30_InWindow(k) =>
    /\ PENDING[k] = 0
    /\ \A c \in Callers : KeyOf(c) = k => ~InProgress(c)

C30_CallStep ==
  \A c \in Callers :
    LET k == KeyOf(c)' IN
    (Calls(c) /\ C30_InWindow(k)) =>
      /\ pc'[c] = "done" /\ result'[c].ok /\ result'[c].used = CacheHitUrl
      /\ PENDING'[k] = 0
      /\ \A d \in Callers : Leader(d)' => Leader(d)

\* C30: from the moment a successful chain wrote the cache until the entry
\* expires, no run for the key is in flight and none starts: every caller of
\* the key in that window is served from the cache
C30_NoSecondChainInWindow == []C30_NoChain /\ [][C30_CallStep]_vars

\* in the last millisecond of the window both callers were served the entry
C30_Witness ==
  \E c, d \in Callers :
    /\ c # d /\ KeyOf(c) = KeyOf(d)
    /\ CACHE[KeyOf(c)].has /\ now = CACHE[KeyOf(c)].exp - 1
    /\ pc[c] = "done" /\ result[c].used = CacheHitUrl
    /\ pc[d] = "done" /\ result[d].used = CacheHitUrl

\* C28 as stated: a single caller's invocation of the gate returns no earlier
\* than 1200 ms after its previous upstream call returned: when a stage's
\* request is answered and the next stage invokes the gate, the gate holds
\* the caller for 1200 ms from then
C28_AfterPreviousCallReturned ==
  [][\A c \in Callers :
       (pc[c] = "call" /\ stage'[c] # stage[c] /\ pc'[c] \in {"sleep", "call"})
         => (pc'[c] = "sleep" /\ timer'[c] >= now + 1200)]_vars

\* C28, amended: a single caller's invocation of the gate returns no earlier
\* than 1200 ms after its previous invocation returned (the moment the
\* previous upstream call was sent), and the slot time is recorded at the
\* moment the gate returns
C28_AfterPreviousGateReturn ==
  [][\A c \in Callers :
       C20_Leaves(c) =>
         /\ gateStarts # <<>> => now >= Last(gateStarts) + 1200
         /\ lastRedditCall' = now
         /\ Last(gateStarts') = now]_vars

\* the caller slept at the gate and left it exactly 1200 ms after it had
\* left it the time before
C28_Witness ==
  \E c \in Callers :
    /\ pc[c] = "call" /\ Len(gateStarts) = 2
    /\ gateStarts[2] = gateStarts[1] + 1200
    /\ lastRedditCall = now /\ gateStarts[2] = now

\* the first element of seq that is not the empty string
FirstNonEmpty(seq) ==
  seq[CHOOSE i \in 1..Len(seq) : seq[i] # "" /\ \A j \in 1..(i - 1) : seq[j] = ""]

C26_PageStep ==
  \A c \in Callers : \A pg \in ResolvePages :
    ( /\ stage[c] = "old.html" /\ heard'[c] = pg /\ PageRespond(c, pg)
      /\ ~(h1[c].status = 404 /\ pg.status = 404) )
    => LET a == IF h1[c].status = 200 THEN h1[c].text ELSE EmptyText
           b == IF pg.status = 200 THEN pg.text ELSE EmptyText
       IN info'[c].canonical =
            FirstNonEmpty(<<a.og, b.og, a.link, b.link, a.desc, b.desc, a.title, b.title,
                            raw(params[c].subreddit)>>)

\* C26: the canonical name read from the pages is the capture of the first
\* pattern that matches, in the order open-graph URL, canonical link,
\* subreddit-description attribute, page title, and the input as it was
\* typed when none matches
C26_ExtractionPriority == [][C26_PageStep]_vars

\* the old front page held a canonical link and a title naming different
\* spellings and no open-graph URL: the link's capture was returned
C26_Witness ==
  \E c \in Callers :
    /\ info[c].exists /\ info[c].source = "html"
    /\ heard[c].status = 200 /\ heard[c].text.og = ""
    /\ heard[c].text.link = "Cooking" /\ heard[c].text.title = "cooking"
    /\ info[c].canonical = "Cooking"
    /\ raw(params[c].subreddit) = "cooking"

\* C24: every fetchPosts call returns a definitive outcome (posts, or one of
\* rateLimited, timeout, unavailable) and none rejects: the handler calls
\* fetchPosts once the resolution found the subreddit (403), and its catch,
\* which answers 500 (433), is never reached from there
C24_NoCallRejects ==
  \A c \in Callers : info[c].exists => reply[c] # ErrorReply

\* the outcomes fetchPosts returns
Definitive(out) ==
  \/ out.ok
  \/ ~out.ok /\ out.rateLimited /\ ~out.timeout
  \/ ~out.ok /\ ~out.rateLimited /\ out.timeout
  \/ PlainUnavailable(out)

\* C24, for calls made with a canonical name: every call, leader or waiter,
\* is eventually given a definitive outcome
C24_EventuallyReturns ==
  \A c \in Callers : InProgress(c) ~> (pc[c] = "done" /\ Definitive(result[c]))

\* C27: a genuine upstream failure is never reported as an empty success:
\* when every request of the digest job's fetchPosts was answered with a
\* failure status, no digest with an empty post list is mailed
C27_NoEmptySuccess ==
  LET d == outbox.latest IN
  (d # NoDigest /\ \A j \in 1..Len(d.asked) : d.asked[j] # 200) => ~d.empty

\* C29: a 'week' subscription that was never sent is due; one that was sent
\* is due exactly on a Monday (UTC) at least 6.5 days after last_sent
C29_WeekDue ==
  \A id \in UsedIds(subscriptions) :
    LET sub == subscriptions[id] IN
    sub.timeframe = "week" =>
      ( isDue(sub, now) <=>
          IF sub.last_sent = NoDate THEN TRUE
          ELSE getUTCDay(now) = 1 /\ now - sub.last_sent >= 13 * 12 * 60 * 60 * 1000 )

\* the cache holds a live entry for the key the request of caller c maps to
C31_KeyCached(c) ==
  getCached(CACHE, cacheKey(raw(params[c].subreddit), timeframeOf(params[c].timeframe)), now).some

\* the handler of caller c takes a step out of its idle state: a request arrives
C31_Arrives(c) ==
  pc[c] = "idle" /\ <<pc[c], params[c], reply[c], result[c], probed[c]>>' #
                    <<pc[c], params[c], reply[c], result[c], probed[c]>>

\* C31: every /api/trending request runs resolveSubreddit before the cache is
\* consulted: whatever the cache holds, the arriving request goes to the rate
\* gate for the first 'about' probe, sleeping there when the slot is taken and
\* sending the probe otherwise, and has no answer yet; and an answer served
\* from the cache is only ever given in the step that receives a probe's answer
C31_ArrivalStep ==
  \A c \in Callers :
    /\ C31_Arrives(c) =>
         /\ probed'[c] = <<"api.about">> /\ stage'[c] = "api.about"
         /\ reply'[c] = NoReply /\ result'[c] = NoResult
         /\ IF lastRedditCall + 1200 - now > 0
              THEN pc'[c] = "sleep" /\ timer'[c] = lastRedditCall + 1200
              ELSE pc'[c] = "call" /\ lastRedditCall' = now
    /\ (result[c] = NoResult /\ result'[c].ok /\ result'[c].used = CacheHitUrl) =>
         /\ pc[c] = "call" /\ IsAboutProbe(stage[c]) /\ probed[c] # <<>>
         /\ AboutSucceeds(heard'[c])

C31_ResolvesBeforeCache == [][C31_ArrivalStep]_vars

\* a request whose key has a live cache entry is asleep at the rate gate, its
\* first probe not yet sent
C31_Witness ==
  \E c \in Callers :
    /\ params[c] # NoParams /\ C31_KeyCached(c)
    /\ pc[c] = "sleep" /\ stage[c] = "api.about" /\ probed[c] = <<"api.about">>
    /\ reply[c] = NoReply

\* a feed with the marker and no <entry>...</entry> block
C33_EmptyFeed == Resp(200, NoHeader, FALSE, TRUE, <<>>)

\* the time to live of an entry, in milliseconds
C33_Ttl(tf) == IF tf = "day" THEN 300000 ELSE 3600000

\* C33: the RSS stage that receives status 200 and a body with a feed marker
\* but no parsable entry makes fetchPosts return ok with an empty list, stores
\* the empty list under the key for the full time to live and never enters the
\* HTML stage; a call within the time to live of such an entry is served the
\* empty list from the cache without entering any stage
C33_EmptyFeedStep ==
  \A c \in Callers :
    /\ (pc[c] = "call" /\ stage[c] = "rss" /\ Respond(c, C33_EmptyFeed)) =>
         /\ pc'[c] = "done"
         /\ result'[c].ok /\ result'[c].posts = <<>> /\ result'[c].used = <<"rss", req[c].canonical>>
         /\ CACHE'[KeyOf(c)] = [has |-> TRUE, data |-> <<>>, exp |-> now + C33_Ttl(req[c].tf)]
         /\ \A j \in 1..Len(attempted'[c]) : attempted'[c][j] # "html"
    /\ \A k \in Keys :
         (/\ Calls(c) /\ cacheKey(req'[c].canonical, req'[c].tf) = k
          /\ CACHE[k].has /\ CACHE[k].data = <<>> /\ now < CACHE[k].exp) =>
            /\ pc'[c] = "done" /\ attempted'[c] = <<>>
            /\ result'[c].ok /\ result'[c].posts = <<>> /\ result'[c].used = CacheHitUrl
            /\ CACHE' = CACHE

C33_EmptyFeedIsCached == [][C33_EmptyFeedStep]_vars

\* in the last millisecond of the time to live of an empty list stored by the
\* RSS stage, a call was served that empty list from the cache
C33_Witness ==
  \E c \in Callers :
    /\ pc[c] = "done" /\ result[c].ok /\ result[c].posts = <<>> /\ result[c].used = CacheHitUrl
    /\ CACHE[KeyOf(c)].has /\ CACHE[KeyOf(c)].data = <<>> /\ now = CACHE[KeyOf(c)].exp - 1

\* C32: whenever resolveSubreddit returns exists = true, canonical is a
\* defined, non-empty string, whatever 'about' payload was accepted as
\* status 200 with data
C32_CanonicalDefined ==
  \A c \in Callers :
    info[c].exists => info[c].canonical # Undefined /\ info[c].canonical # ""

\* C34: a timeout or a network error raised by a probe of the resolution is
\* answered with status 500, not 504; no stage of fetchPosts is entered for
\* that request, and the cache and the in-flight map stay as they were
C34_ProbeErrorStep ==
  \A c \in Callers : \A msg \in ErrorMessages :
    (pc[c] = "call" /\ stage[c] \in Probes /\ ProbeRejects(c, msg)) =>
      /\ reply'[c].status = 500 /\ reply'[c].code = "" /\ reply'[c].posts = <<>>
      /\ pc'[c] = "idle"
      /\ attempted[c] = <<>> /\ attempted'[c] = <<>> /\ result'[c] = NoResult
      /\ CACHE' = CACHE /\ PENDING' = PENDING

C34_ProbeErrorIs500 == [][C34_ProbeErrorStep]_vars

\* the second probe of a request timed out ten seconds after it was sent and
\* the request was answered 500
C34_Witness ==
  \E c \in Callers :
    /\ reply[c].status = 500 /\ pc[c] = "idle"
    /\ probed[c] = <<"api.about", "www.about">> /\ stage[c] = "www.about"
    /\ now = timer[c] + FETCH_TIMEOUT_MS
    /\ info[c] = NoInfo /\ attempted[c] = <<>>

\* the input of caller c's request, trimmed and without its r/ prefix
C35_Normalized(c) ==
  CASE params[c].subreddit = "r/Cooking"   -> "Cooking"
    [] params[c].subreddit = " R/cooking " -> "cooking"
    [] OTHER                               -> params[c].subreddit

\* C35: resolveSubreddit returns exists = false only when both front-page
\* probes were answered 404; for every other combination of statuses in which
\* no 'about' probe succeeded it returns exists = true, and when neither page
\* was retrieved (no status 200) canonical is the normalized input; the
\* resolveSubreddit of the digest job returns the same for the same answers
C35_ResolutionStep ==
  \A c \in Callers :
    (info[c] = NoInfo /\ info'[c] # NoInfo /\ info'[c].source \notin {"api.about", "www.about"}) =>
      LET p1 == h1[c]
          p2 == heard'[c]
          both404 == p1.status = 404 /\ p2.status = 404
      IN /\ pc[c] = "call" /\ stage[c] = "old.html"
         /\ ~info'[c].exists <=> both404
         /\ (~both404 /\ p1.status # 200 /\ p2.status # 200) =>
              /\ info'[c].exists
              /\ info'[c].canonical = C35_Normalized(c)
         /\ \A a1 \in AboutFailures, a2 \in AboutFailures :
              LET r == cronResolveSubreddit(a1, a2, p1, p2, C35_Normalized(c))
              IN r.exists = info'[c].exists /\ r.canonical = info'[c].canonical

C35_MissingOnlyOnTwo404 == [][C35_ResolutionStep]_vars

\* every probe of a request for " R/cooking " was answered 429 and the
\* resolution returned exists = true with canonical "cooking"
C35_Witness ==
  \E c \in Callers :
    /\ params[c].subreddit = " R/cooking "
    /\ probed[c] = ProbeOrder
    /\ heard[c].status = 429
    /\ info[c].exists /\ info[c].canonical = "cooking" /\ info[c].source = "html"

\* C36: the cached token is never returned once the lifetime upstream declared
\* for it (expires_in seconds from the exchange) has elapsed: whenever a run
\* enters the OAuth stage and is handed the cached token, that lifetime has
\* not yet ended
C36_CachedTokenStep ==
  \A c \in Callers :
    (/\ attempted'[c] # attempted[c] /\ stage'[c] = "oauth"
     /\ pc'[c] \in {"sleep", "call"}
     /\ redditToken # NoToken /\ tokenLifeEnd # 0) =>
       now < tokenLifeEnd

C36_TokenWithinLifetime == [][C36_CachedTokenStep]_vars

\* C37: one row receives consecutive digests at least 20 hours apart for
\* timeframe 'day' and at least 6.5 days apart for 'week', every digest mailed
\* being followed by last_sent recorded for the row: a step of the job that
\* mails a digest to a row comes no sooner than that after the row's previous
\* digest, and leaves the row's last_sent at the time of the mail
C37_DigestStep ==
  \A id \in RowIds :
    outbox'.at[id] # outbox.at[id] =>
      /\ subscriptions'[id].last_sent = now
      /\ \/ outbox.at[id] = NoDate
         \/ now - outbox.at[id] >= IF subscriptions[id].timeframe = "day"
                                     THEN 20 * 60 * 60 * 1000
                                     ELSE 13 * 12 * 60 * 60 * 1000

C37_DigestsSpacedApart == [][C37_DigestStep]_vars

\* C38: in one run of the job a failure in the turn of one subscriber
\* (resolution, fetch, mail, database update) does not stop the run: the job
\* goes on to the next selected row until the last, a later row that is due
\* is still mailed its digest when nothing fails in its own turn, and
\* last_sent of a row is never updated in a turn whose mail failed, nor
\* without a digest mailed to that row in that turn
C38_TurnStep ==
  job.pc = "loop" =>
    /\ job' # job =>
         IF job.i < Len(job.rows)
           THEN job'.pc = "loop" /\ job'.i = job.i + 1 /\ job'.rows = job.rows
           ELSE job'.pc = "off"
    /\ \A id \in RowIds :
         subscriptions'[id].last_sent # subscriptions[id].last_sent =>
           /\ id = job.rows[job.i].id
           /\ outbox'.at[id] = now /\ outbox'.latest.row = id /\ id \in outbox'.mailed
    /\ \A in \in CronInputs :
         /\ (in[3] = "mail" /\ CronRow(in[1], in[2], in[3])) =>
              /\ subscriptions' = subscriptions
              /\ outbox'.at = outbox.at /\ outbox'.latest = outbox.latest
         /\ (/\ outbox.caught # {} /\ isDue(job.rows[job.i], now)
             /\ in = <<Found1, Listed1, "none">> /\ CronRow(in[1], in[2], in[3])) =>
              /\ outbox'.latest.row = job.rows[job.i].id
              /\ outbox'.latest.at = now

C38_FailureDoesNotStopTheRun == [][C38_TurnStep]_vars

\* a run is over in which the turn of row 1 ended in the catch block with no
\* last_sent recorded, and row 2, after it, was mailed its digest and has its
\* last_sent recorded
C38_Witness ==
  /\ job.pc = "off"
  /\ 1 \in outbox.caught /\ subscriptions[1].last_sent = NoDate
  /\ 2 \in outbox.mailed /\ 2 \notin outbox.caught
  /\ outbox.latest.row = 2 /\ outbox.latest.at = now
  /\ subscriptions[2].last_sent = now

\* C39: a subscription is confirmed only by presenting the token issued by
\* its most recent subscribe call; a token confirms at most once, no row
\* holding it afterwards; subscribing again with the same email, subreddit and
\* timeframe resets the row to unconfirmed and leaves its earlier token on no
\* row; and the digest job only mails rows that are confirmed
C39_FlowStep ==
  \A id \in RowIds :
    LET old == subscriptions[id]
        new == subscriptions'[id]
    IN /\ (~old.confirmed /\ new.confirmed) =>
            \E sub \in confirming :
              /\ sub.id = id /\ sub.token # NoTokenId
              /\ sub.token = old.confirmation_token
       /\ \A sub \in confirming \ confirming' :
            \A other \in RowIds : subscriptions'[other].confirmation_token # sub.token
       /\ (old.used /\ new.confirmation_token \notin {old.confirmation_token, NoTokenId}) =>
            /\ ~new.confirmed
            /\ \A other \in RowIds :
                 \/ old.confirmation_token = NoTokenId
                 \/ subscriptions'[other].confirmation_token # old.confirmation_token
       /\ (id \in outbox'.mailed /\ id \notin outbox.mailed) => old.confirmed

C39_SubscribeConfirmFlow == [][C39_FlowStep]_vars

====
